---- MODULE Spec2Model ----
(***************************************************************************)
(* Transaction lifecycle of the fraud-detection payment backend:           *)
(* backend/server.py (user API and auto-refund job) and app/main.py (admin *)
(* backend) acting on one PostgreSQL database.  Every handler opens its    *)
(* own connection (READ COMMITTED): its SELECT is one step, its writes     *)
(* become visible together at commit, which is a second step.              *)
(* Money and risk are integers: the lifecycle handlers take risk and        *)
(* thresholds scaled by 100, the scoring pipeline computes in thousandths.  *)
(***************************************************************************)
EXTENDS Integers, Sequences, FiniteSets, Bags, TLC

\* ---------------------------------------------------------------- bounds
MaxTx == 2
MaxTxSmall == 1
MaxTime == 7

\* ------------------------------------------------------- program constants
RefundWindow == 5
SweepInterval == 1

Users == {"u1", "u2"}
NoUser == "none"
Null == -1
Senders == {"u1"}
Receivers == {NoUser, "u2"}
Vpas == {"r1", "r2"}
Workers == {"w1", "w2"}
Sweepers == {"s1", "s2"}
Admins == {"a1"}
Amounts == {2}
BufferActions == {"NONE", "ESCALATE", "BLOCK"}
Decisions == {"confirm", "cancel", "later"}
AdminActions == {"ALLOW", "allow", "BLOCK", "DELAY", ""}
NoRisk == -1
NoTx == 0
AdminRisks == {NoRisk, 10}

\* decision inputs: risk, delay threshold, block threshold, buffer override
DecisionGrid ==
    [risk : {0, 30, 45, 60, 75}, delay : {30, 45}, block : {60, 75},
     buf : BufferActions]
CoreDecisions ==
    { [risk |-> 20, delay |-> 30, block |-> 60, buf |-> "NONE"],
      [risk |-> 45, delay |-> 30, block |-> 60, buf |-> "NONE"],
      [risk |-> 75, delay |-> 30, block |-> 60, buf |-> "NONE"] }

VARIABLES
    transactions,        \* table transactions: sequence of rows, tx_id = index
    transaction_ledger,  \* table transaction_ledger: bag of entries
    balance,             \* users.balance
    fraud_alerts,        \* table fraud_alerts: set of rows (one per tx)
    admin_logs,          \* table admin_logs: sequence of rows
    events,              \* websocket events scheduled so far (bag)
    now,                 \* wall clock, minutes
    req,                 \* user API request threads
    resp,                \* the response returned last: [who, code]
    sweep,               \* auto-refund job runs
    sched,               \* last fire time of each scheduler
    admin,               \* admin_action requests
    thresholds,          \* compute_dynamic_thresholds: environment, arguments, result
    store_up,            \* the rolling store (Redis) answers
    risk_buffer,         \* risk_buffer:{user}: value, last_ts, history
    bufreq,              \* update_risk_buffer calls in progress
    timestamps,          \* user:{user}:timestamps: the velocity ticks
    recipients,          \* user:{user}:recipients: the known recipients
    extracted,           \* the feature vectors returned so far, in order
    feature_r,           \* feature_engine.r: not imported yet, a client, or None
    creq,                \* create_transaction requests in progress
    sequence_counter,    \* _sequence_counter of the day (in-memory)
    daily,               \* table user_daily_transactions of the day
    trust,               \* trust:{user}:{recipient}: tx_count, total_amount, fraud_flags
    graph,               \* graph:*: recipient senders, fraud senders, user fraud counts
    drift,               \* drift:live:{feature}: the values recorded, newest first
    active_connections,  \* ws_manager.active_connections[user]: the sessions, in order
    active_users,        \* the keys of ws_manager.active_connections
    connection_info,     \* ws_manager.connection_info: the registered sessions
    broken,              \* the sessions whose send_text raises
    ws_tasks,            \* the send_to_user coroutines, one per published event
    ready,               \* the coroutines scheduled on the loop and not started
    waiters,             \* per session, the coroutines suspended in send_text
    running,             \* the coroutine the event loop runs (0: none)
    received,            \* per session, the events handed to send_text, in order
    ensemble             \* score_with_ensemble / score_transaction: arguments, result

vars == <<transactions, transaction_ledger, balance, fraud_alerts, admin_logs,
          events, now, req, resp, sweep, sched, admin, thresholds,
          store_up, risk_buffer, bufreq, timestamps, recipients, extracted,
          feature_r, creq, sequence_counter, daily, trust, graph, drift,
          active_connections, active_users, connection_info, broken, ws_tasks,
          ready, waiters, running, received, ensemble>>

\* the database tables and the lifecycle handlers' state
core == <<transactions, transaction_ledger, balance, fraud_alerts, admin_logs,
          events, now, req, resp, sweep, sched, admin>>

\* the risk buffer and the feature engine's keys in the rolling store
bufvars == <<risk_buffer, bufreq>>
featvars == <<timestamps, recipients, extracted, feature_r>>

\* create_transaction step by step
createvars == <<creq, sequence_counter, daily>>

\* the trust engine's, graph engine's and drift monitor's keys
signalvars == <<trust, graph, drift>>

\* the websocket manager and the event loop's coroutines
wsvars == <<active_connections, active_users, connection_info, broken, ws_tasks,
            ready, waiters, running, received>>

\* the ML scorer's last call
scorevars == <<ensemble>>

\* the state outside the transaction lifecycle
ext == <<thresholds, store_up, bufvars, featvars, createvars, signalvars, wsvars, scorevars>>

\* ---------------------------------------------------------------- helpers
TxIds == 1..Len(transactions)

Entry(t, op, u, amt) == [tx_id |-> t, operation |-> op, user_id |-> u, amount |-> amt]

Event(type, t, u) == [type |-> type, tx_id |-> t, user_id |-> u]

AddAll(bag, S) == bag (+) SetToBag(S)

RECURSIVE SumCopies(_, _)
SumCopies(bag, S) ==
    IF S = {} THEN 0
    ELSE LET e == CHOOSE x \in S : TRUE
         IN CopiesIn(e, bag) + SumCopies(bag, S \ {e})

LedgerCount(t, op) ==
    SumCopies(transaction_ledger,
              {e \in BagToSet(transaction_ledger) : e.tx_id = t /\ e.operation = op})

EventCount(type, t) ==
    SumCopies(events, {e \in BagToSet(events) : e.type = type /\ e.tx_id = t})

\* UPDATE users SET balance = balance + %s WHERE user_id = %s
Credit_and_deduct(bal, u, amt) == [v \in Users |-> IF v = u THEN bal[v] + amt ELSE bal[v] - amt]
Credit(bal, u, amt) == [bal EXCEPT ![u] = @ + amt]

\* str.upper() on the admin action strings
Upper(s) ==
    CASE s = "allow" -> "ALLOW"
      [] OTHER -> s

\* a response, with the two request fields admin_action decides on
Reply(who, code) == [who |-> who, code |-> code, logged_in |-> TRUE, action |-> ""]

AdminReply(a, code, logged_in, act) ==
    [who |-> a, code |-> code, logged_in |-> logged_in, action |-> act]

IdleReq == [pc |-> "idle"]
IdleSweep == [pc |-> "idle"]
IdleAdmin == [pc |-> "idle"]
NoThresholds == [pc |-> "idle"]
NoBuffer == [value |-> Null, last_ts |-> Null, history |-> <<>>]
NoTrust == [tx_count |-> 0, total_amount |-> 0, fraud_flags |-> 0]
NoGraph == [recipient_senders |-> {}, recipient_fraud_senders |-> {},
            user_fraud_count |-> [u \in {"u1", "u2"} |-> 0]]

\* --------------------------------------------------------- create_transaction
\* the thresholds compared strictly
DecideAction_strict(risk, delay, block, buf) ==
    IF buf = "BLOCK" \/ risk > block THEN "BLOCK"
    ELSE IF buf = "ESCALATE" \/ risk > delay THEN "DELAY"
    ELSE "ALLOW"

DecideAction(risk, delay, block, buf) ==
    IF buf = "BLOCK" \/ risk >= block THEN "BLOCK"
    ELSE IF buf = "ESCALATE" \/ risk >= delay THEN "DELAY"
    ELSE "ALLOW"

StatusFor(action) ==
    CASE action = "BLOCK" -> "blocked"
      [] action = "DELAY" -> "pending"
      [] OTHER -> "success"

\* the deduction stamped whatever the action
DeductedAt_always(action, ts) == ts

\* amount_deducted_at = datetime.now(timezone.utc) if action == "ALLOW" else None
DeductedAt(action, ts) == IF action = "ALLOW" THEN ts ELSE Null

create_transaction(u, r, amt, d) ==
    /\ Len(transactions) < MaxTx
    /\ LET t == Len(transactions) + 1
           action == DecideAction(d.risk, d.delay, d.block, d.buf)
           credited == action = "ALLOW" /\ r # NoUser
           row == [tx_id |-> t, user_id |-> u, receiver_user_id |-> r,
                   amount |-> amt, risk_score |-> d.risk, action |-> action,
                   db_status |-> StatusFor(action),
                   amount_deducted_at |-> DeductedAt(action, now),
                   amount_credited_at |-> IF credited THEN now ELSE Null,
                   created_at |-> now,
                   explainability |-> [delay |-> d.delay, block |-> d.block,
                                       buffer_action |-> d.buf]]
       IN /\ transactions' = Append(transactions, row)
          /\ transaction_ledger' =
               AddAll(transaction_ledger,
                      (IF action = "ALLOW" THEN {Entry(t, "DEBIT", u, amt)} ELSE {})
                      \cup (IF credited THEN {Entry(t, "CREDIT", r, amt)} ELSE {}))
          /\ balance' = IF credited THEN Credit(balance, r, amt) ELSE balance
          /\ fraud_alerts' =
               IF action \in {"DELAY", "BLOCK"}
               THEN fraud_alerts \cup
                      {[tx_id |-> t, user_id |-> u, alert_type |-> action,
                        user_decision |-> "none", resolved_at |-> Null]}
               ELSE fraud_alerts
          /\ events' =
               AddAll(events,
                      {Event("transaction_created", t, u)}
                      \cup (IF action = "ALLOW" THEN {Event("balance_updated", t, u)} ELSE {})
                      \cup (IF credited THEN {Event("transaction_received", t, r)} ELSE {}))
    /\ UNCHANGED <<admin_logs, now, req, resp, sweep, sched, admin>>
    /\ UNCHANGED ext

\* -------------------------------------------------------- confirm_transaction
\* the SELECT without its db_status = 'pending' condition
confirm_select_any_status(w, u, t) ==
    /\ req[w].pc = "idle"
    /\ IF ~(t \in TxIds /\ transactions[t].user_id = u)
       THEN /\ resp' = Reply(w, "404_not_found_or_not_pending")
            /\ req' = req
       ELSE /\ req' = [req EXCEPT ![w] = [pc |-> "confirm", user_id |-> u,
                                           row |-> transactions[t]]]
            /\ resp' = resp
    /\ UNCHANGED <<transactions, transaction_ledger, balance, fraud_alerts,
                   admin_logs, events, now, sweep, sched, admin>>
    /\ UNCHANGED ext

\* SELECT ... WHERE tx_id AND user_id AND db_status = 'pending', then the checks
confirm_select(w, u, t) ==
    /\ req[w].pc = "idle"
    /\ IF ~(t \in TxIds /\ transactions[t].user_id = u
            /\ transactions[t].db_status = "pending")
       THEN /\ resp' = Reply(w, "404_not_found_or_not_pending")
            /\ req' = req
       ELSE IF transactions[t].action # "DELAY"
       THEN /\ resp' = Reply(w, "400_only_delayed")
            /\ req' = req
       ELSE /\ req' = [req EXCEPT ![w] = [pc |-> "confirm", user_id |-> u,
                                           row |-> transactions[t]]]
            /\ resp' = resp
    /\ UNCHANGED <<transactions, transaction_ledger, balance, fraud_alerts,
                   admin_logs, events, now, sweep, sched, admin>>
    /\ UNCHANGED ext

\* ledger DEBIT / receiver credit / UPDATE transactions ... WHERE tx_id; commit
confirm_commit(w) ==
    /\ req[w].pc = "confirm"
    /\ LET row == req[w].row
           t == row.tx_id
           r == row.receiver_user_id
       IN /\ transaction_ledger' =
               AddAll(transaction_ledger,
                      (IF row.amount_deducted_at = Null
                       THEN {Entry(t, "DEBIT", req[w].user_id, row.amount)} ELSE {})
                      \cup (IF r # NoUser THEN {Entry(t, "CREDIT", r, row.amount)} ELSE {}))
          /\ balance' = IF r # NoUser THEN Credit(balance, r, row.amount)
                        ELSE balance
          /\ transactions' =
               [transactions EXCEPT
                  ![t].db_status = "confirmed",
                  ![t].action = "ALLOW",
                  ![t].amount_deducted_at = IF @ = Null THEN now ELSE @,
                  ![t].amount_credited_at = now]
          /\ events' =
               AddAll(events,
                      {Event("transaction_confirmed", t, req[w].user_id)}
                      \cup (IF r # NoUser THEN {Event("transaction_credited", t, r)} ELSE {}))
    /\ req' = [req EXCEPT ![w] = IdleReq]
    /\ resp' = Reply(w, "200_confirmed")
    /\ UNCHANGED <<fraud_alerts, admin_logs, now, sweep, sched, admin>>
    /\ UNCHANGED ext

\* --------------------------------------------------------- cancel_transaction
cancel_select(w, u, t) ==
    /\ req[w].pc = "idle"
    /\ IF ~(t \in TxIds /\ transactions[t].user_id = u
            /\ transactions[t].db_status = "pending")
       THEN /\ resp' = Reply(w, "404_not_found_or_not_pending")
            /\ req' = req
       ELSE IF transactions[t].action # "DELAY"
       THEN /\ resp' = Reply(w, "400_only_delayed")
            /\ req' = req
       ELSE /\ req' = [req EXCEPT ![w] = [pc |-> "cancel", user_id |-> u,
                                           row |-> transactions[t]]]
            /\ resp' = resp
    /\ UNCHANGED <<transactions, transaction_ledger, balance, fraud_alerts,
                   admin_logs, events, now, sweep, sched, admin>>
    /\ UNCHANGED ext

cancel_commit(w) ==
    /\ req[w].pc = "cancel"
    /\ LET row == req[w].row
           t == row.tx_id
           refund == row.amount_deducted_at # Null
       IN /\ balance' = IF refund
                        THEN [balance EXCEPT ![req[w].user_id] = @ + row.amount]
                        ELSE balance
          /\ transaction_ledger' =
               AddAll(transaction_ledger,
                      IF refund THEN {Entry(t, "REFUND", req[w].user_id, row.amount)}
                      ELSE {})
          /\ transactions' =
               [transactions EXCEPT ![t].db_status = "cancelled", ![t].action = "BLOCK"]
          /\ events' = AddAll(events, {Event("transaction_cancelled", t, req[w].user_id)})
    /\ req' = [req EXCEPT ![w] = IdleReq]
    /\ resp' = Reply(w, "200_cancelled")
    /\ UNCHANGED <<fraud_alerts, admin_logs, now, sweep, sched, admin>>
    /\ UNCHANGED ext

\* ------------------------------------------------------- handle_user_decision
\* SELECT ... WHERE tx_id AND user_id, then the status and action checks
decision_select(w, u, t, d) ==
    /\ req[w].pc = "idle"
    /\ IF ~(t \in TxIds /\ transactions[t].user_id = u)
       THEN /\ resp' = Reply(w, "404_not_found")
            /\ req' = req
       ELSE IF transactions[t].db_status # "pending"
       THEN /\ resp' = Reply(w, "400_not_pending")
            /\ req' = req
       ELSE IF d = "confirm" /\ transactions[t].action # "DELAY"
       THEN /\ resp' = Reply(w, "400_only_delayed")
            /\ req' = req
       ELSE /\ req' = [req EXCEPT ![w] = [pc |-> "decision", user_id |-> u,
                                           decision |-> d, row |-> transactions[t]]]
            /\ resp' = resp
    /\ UNCHANGED <<transactions, transaction_ledger, balance, fraud_alerts,
                   admin_logs, events, now, sweep, sched, admin>>
    /\ UNCHANGED ext

decision_commit(w) ==
    /\ req[w].pc = "decision"
    /\ LET row == req[w].row
           t == row.tx_id
           u == req[w].user_id
           r == row.receiver_user_id
           confirm == req[w].decision = "confirm"
           credit == confirm /\ r # NoUser
           refund == ~confirm /\ row.amount_deducted_at # Null
       IN /\ transaction_ledger' =
               AddAll(transaction_ledger,
                      (IF confirm /\ row.amount_deducted_at = Null
                       THEN {Entry(t, "DEBIT", u, row.amount)} ELSE {})
                      \cup (IF credit THEN {Entry(t, "CREDIT", r, row.amount)} ELSE {})
                      \cup (IF refund THEN {Entry(t, "REFUND", u, row.amount)} ELSE {}))
          /\ balance' =
               IF credit THEN [balance EXCEPT ![r] = @ + row.amount]
               ELSE IF refund THEN [balance EXCEPT ![u] = @ + row.amount]
               ELSE balance
          /\ transactions' =
               [transactions EXCEPT
                  ![t].action = IF confirm THEN "ALLOW" ELSE "BLOCK",
                  ![t].db_status = IF confirm THEN "success" ELSE "cancelled",
                  ![t].amount_deducted_at = IF confirm /\ @ = Null THEN now ELSE @,
                  ![t].amount_credited_at = IF confirm THEN now ELSE @]
          /\ fraud_alerts' =
               {IF al.tx_id = t
                THEN [al EXCEPT !.user_decision = req[w].decision, !.resolved_at = now]
                ELSE al : al \in fraud_alerts}
    /\ req' = [req EXCEPT ![w] = IdleReq]
    /\ resp' = Reply(w, "200_decision")
    /\ UNCHANGED <<admin_logs, events, now, sweep, sched, admin>>
    /\ UNCHANGED ext

\* ------------------------------------------- auto_refund_delayed_transactions
RECURSIVE RefundTotal(_, _)
RefundTotal(rows, u) ==
    IF rows = {} THEN 0
    ELSE LET row == CHOOSE x \in rows : TRUE
         IN (IF row.user_id = u /\ row.amount_deducted_at # Null THEN row.amount ELSE 0)
            + RefundTotal(rows \ {row}, u)

\* the cutoff one minute too late
Expired_late ==
    {transactions[t] : t \in {i \in TxIds :
        /\ transactions[i].action = "DELAY"
        /\ transactions[i].db_status = "pending"
        /\ transactions[i].created_at < now - RefundWindow - 1}}

Expired ==
    {transactions[t] : t \in {i \in TxIds :
        /\ transactions[i].action = "DELAY"
        /\ transactions[i].db_status = "pending"
        /\ transactions[i].created_at < now - RefundWindow}}

\* the job fires once per interval; SELECT of the expired pending rows
auto_refund_select(s) ==
    /\ sweep[s].pc = "idle"
    /\ sched[s] + SweepInterval <= now
    /\ sched' = [sched EXCEPT ![s] = now]
    /\ sweep' = [sweep EXCEPT ![s] =
                   IF Expired = {} THEN IdleSweep
                   ELSE [pc |-> "selected", rows |-> Expired]]
    /\ UNCHANGED <<transactions, transaction_ledger, balance, fraud_alerts,
                   admin_logs, events, now, req, resp, admin>>
    /\ UNCHANGED ext

\* the loop over the fetched rows and the single commit
auto_refund_commit(s) ==
    /\ sweep[s].pc = "selected"
    /\ LET rows == sweep[s].rows
           ids == {row.tx_id : row \in rows}
       IN /\ balance' = [u \in Users |-> balance[u] + RefundTotal(rows, u)]
          /\ transaction_ledger' =
               AddAll(transaction_ledger,
                      {Entry(row.tx_id, "REFUND", row.user_id, row.amount) :
                         row \in {x \in rows : x.amount_deducted_at # Null}})
          /\ transactions' =
               [t \in TxIds |->
                  IF t \in ids
                  THEN [transactions[t] EXCEPT !.db_status = "auto-refunded",
                                               !.action = "BLOCK"]
                  ELSE transactions[t]]
          /\ events' =
               AddAll(events,
                      {Event("transaction_auto_refunded", row.tx_id, row.user_id) :
                         row \in rows})
    /\ sweep' = [sweep EXCEPT ![s] = IdleSweep]
    /\ UNCHANGED <<fraud_alerts, admin_logs, now, req, resp, sched, admin>>
    /\ UNCHANGED ext

\* a statement of the loop or conn.commit() raises: the events of the rows
\* handled so far are already scheduled, the except branch rolls back
auto_refund_rollback(s, done) ==
    /\ sweep[s].pc = "selected"
    /\ done \subseteq sweep[s].rows
    /\ events' =
         AddAll(events,
                {Event("transaction_auto_refunded", row.tx_id, row.user_id) :
                   row \in done})
    /\ sweep' = [sweep EXCEPT ![s] = IdleSweep]
    /\ UNCHANGED <<transactions, transaction_ledger, balance, fraud_alerts,
                   admin_logs, now, req, resp, sched, admin>>
    /\ UNCHANGED ext

\* -------------------------------------------------------------- admin_action
\* the request checks without the only-ALLOW refusal
admin_action_any(a, logged_in, t, act, rs) ==
    /\ admin[a].pc = "idle"
    /\ LET refuse(code) == /\ resp' = AdminReply(a, code, logged_in, act)
                           /\ admin' = admin
       IN IF ~logged_in THEN refuse("401_unauthenticated")
          ELSE IF t = NoTx \/ act = "" THEN refuse("400_required")
          ELSE IF t \notin TxIds THEN refuse("404_not_found")
          ELSE IF Upper(transactions[t].action) # "BLOCK" THEN refuse("400_not_blocked")
          ELSE /\ admin' = [admin EXCEPT ![a] =
                              [pc |-> "update", tx_id |-> t, action |-> act,
                               risk_score |-> rs]]
               /\ resp' = resp
    /\ UNCHANGED <<transactions, transaction_ledger, balance, fraud_alerts,
                   admin_logs, events, now, req, sweep, sched>>
    /\ UNCHANGED ext

\* the request checks and the first db_get_transaction
admin_action(a, logged_in, t, act, rs) ==
    /\ admin[a].pc = "idle"
    /\ LET refuse(code) == /\ resp' = AdminReply(a, code, logged_in, act)
                           /\ admin' = admin
       IN IF ~logged_in THEN refuse("401_unauthenticated")
          ELSE IF t = NoTx \/ act = "" THEN refuse("400_required")
          ELSE IF Upper(act) # "ALLOW" THEN refuse("403_only_allow")
          ELSE IF t \notin TxIds THEN refuse("404_not_found")
          ELSE IF Upper(transactions[t].action) # "BLOCK" THEN refuse("400_not_blocked")
          ELSE /\ admin' = [admin EXCEPT ![a] =
                              [pc |-> "update", tx_id |-> t, action |-> act,
                               risk_score |-> rs]]
               /\ resp' = resp
    /\ UNCHANGED <<transactions, transaction_ledger, balance, fraud_alerts,
                   admin_logs, events, now, req, sweep, sched>>
    /\ UNCHANGED ext

\* UPDATE transactions SET action [, risk_score] WHERE tx_id; commit
db_update_action(a) ==
    /\ admin[a].pc = "update"
    /\ transactions' =
         [transactions EXCEPT
            ![admin[a].tx_id].action = admin[a].action,
            ![admin[a].tx_id].risk_score =
               IF admin[a].risk_score = NoRisk THEN @ ELSE admin[a].risk_score]
    /\ admin' = [admin EXCEPT ![a].pc = "log"]
    /\ UNCHANGED <<transaction_ledger, balance, fraud_alerts, admin_logs, events,
                   now, req, resp, sweep, sched>>
    /\ UNCHANGED ext

\* INSERT INTO admin_logs; a failure is swallowed
db_add_admin_log(a, ok) ==
    /\ admin[a].pc = "log"
    /\ admin_logs' =
         IF ok
         THEN Append(admin_logs,
                     [tx_id |-> admin[a].tx_id, user_id |-> "unknown",
                      action |-> admin[a].action, admin_username |-> a,
                      source_ip |-> "client_host"])
         ELSE admin_logs
    /\ admin' = [admin EXCEPT ![a] = IdleAdmin]
    /\ resp' = AdminReply(a, "200_ok", TRUE, admin[a].action)
    /\ UNCHANGED <<transactions, transaction_ledger, balance, fraud_alerts, events,
                   now, req, sweep, sched>>
    /\ UNCHANGED ext

\* ------------------------------------------------------------------ clock
Tick(d) ==
    /\ now + d <= MaxTime
    /\ now' = now + d
    /\ UNCHANGED <<transactions, transaction_ledger, balance, fraud_alerts,
                   admin_logs, events, req, resp, sweep, sched, admin>>
    /\ UNCHANGED ext

\* ------------------------------------------------ ws_manager: initial state
\* the websocket sessions of one user, in the order they connected
Sessions == <<"s1", "s2", "s3">>
SessionSet == {Sessions[i] : i \in 1..Len(Sessions)}

\* the events published to the user, numbered in the order _fire_ws_event schedules them
MaxEvents == 2
EventIds == 1..MaxEvents

\* a send_to_user coroutine that has not been scheduled
NewTask ==
    [pc |-> "new", idx |-> 0, disconnected_connections |-> <<>>, at_start |-> {},
     detached |-> FALSE]

\* the user whose sessions are modelled
WsUser == "u1"

\* three sessions connected, nothing published
InitWs ==
    /\ active_connections = Sessions
    /\ active_users = {WsUser}
    /\ connection_info = SessionSet
    /\ broken = {}
    /\ ws_tasks = [e \in EventIds |-> NewTask]
    /\ ready = <<>>
    /\ waiters = [s \in SessionSet |-> <<>>]
    /\ running = 0
    /\ received = [s \in SessionSet |-> <<>>]
    /\ ensemble = [pc |-> "idle"]

\* no session connected yet
InitNoSessions ==
    /\ active_connections = <<>>
    /\ active_users = {}
    /\ connection_info = {}
    /\ broken = {}
    /\ ws_tasks = [e \in EventIds |-> NewTask]
    /\ ready = <<>>
    /\ waiters = [s \in SessionSet |-> <<>>]
    /\ running = 0
    /\ received = [s \in SessionSet |-> <<>>]
    /\ ensemble = [pc |-> "idle"]

\* ------------------------------------------------------------ specification
\* empty tables, an empty rolling store, idle threads
InitStore ==
    /\ transactions = <<>>
    /\ transaction_ledger = EmptyBag
    /\ balance = [u \in Users |-> 0]
    /\ fraud_alerts = {}
    /\ admin_logs = <<>>
    /\ events = EmptyBag
    /\ now = 0
    /\ req = [w \in Workers |-> IdleReq]
    /\ resp = Reply("none", "none")
    /\ sweep = [s \in Sweepers |-> IdleSweep]
    /\ sched = [s \in Sweepers |-> 0]
    /\ admin = [a \in Admins |-> IdleAdmin]
    /\ thresholds = NoThresholds
    /\ store_up = TRUE
    /\ risk_buffer = [u \in Users |-> NoBuffer]
    /\ bufreq = [w \in Workers |-> IdleReq]
    /\ timestamps = [u \in Users |-> {}]
    /\ recipients = [u \in Users |-> {}]
    /\ extracted = <<>>
    /\ feature_r = "unset"
    /\ creq = [w \in Workers |-> IdleReq]
    /\ sequence_counter = 0
    /\ daily = [u \in Users |-> [total_amount |-> 0, transaction_count |-> 0]]
    /\ trust = [k \in Senders \X Vpas |-> NoTrust]
    /\ graph = NoGraph
    /\ drift = <<>>

Init == InitStore /\ InitWs

Create(R, D) ==
    \E u \in Senders, r \in R, amt \in Amounts, d \in D :
        create_transaction(u, r, amt, d)

Confirm(W, U) == \E w \in W, u \in U, t \in 1..MaxTx : confirm_select(w, u, t)

ConfirmCommit(W) == \E w \in W : confirm_commit(w)

Cancel(W, U) == \E w \in W, u \in U, t \in 1..MaxTx : cancel_select(w, u, t)

CancelCommit(W) == \E w \in W : cancel_commit(w)

Decision(W, U) ==
    \E w \in W, u \in U, t \in 1..MaxTx, d \in Decisions :
        decision_select(w, u, t, d)

DecisionCommit(W) == \E w \in W : decision_commit(w)

Sweep(S) == \E s \in S : auto_refund_select(s)

SweepCommit(S) == \E s \in S : auto_refund_commit(s)

AdminAction ==
    \E a \in Admins, logged_in \in BOOLEAN, t \in 0..MaxTx, act \in AdminActions,
       rs \in AdminRisks :
        admin_action(a, logged_in, t, act, rs)

AdminUpdate == \E a \in Admins : db_update_action(a)

AdminLog == \E a \in Admins, ok \in BOOLEAN : db_add_admin_log(a, ok)

\* one request thread of the user API and the auto-refund job
Next ==
    \/ Create(Receivers, CoreDecisions)
    \/ Tick(RefundWindow + 1)
    \/ Confirm({"w1"}, Users) \/ ConfirmCommit({"w1"})
    \/ Cancel({"w1"}, Users) \/ CancelCommit({"w1"})
    \/ Decision({"w1"}, Users) \/ DecisionCommit({"w1"})
    \/ Sweep({"s1"}) \/ SweepCommit({"s1"})

Spec == Init /\ [][Next]_vars

\* two request threads of the user API on the same transactions
NextRace ==
    \/ Create(Receivers, CoreDecisions)
    \/ Confirm(Workers, Users) \/ ConfirmCommit(Workers)
    \/ Cancel(Workers, Users) \/ CancelCommit(Workers)
    \/ Decision(Workers, Users) \/ DecisionCommit(Workers)

SpecRace == Init /\ [][NextRace]_vars

\* two server processes, each with its own scheduler
NextSweeps ==
    \/ Create(Receivers, CoreDecisions)
    \/ Tick(RefundWindow + 1)
    \/ Sweep(Sweepers) \/ SweepCommit(Sweepers)

SpecSweeps == Init /\ [][NextSweeps]_vars

\* the auto-refund job with its database transaction failing
SweepRollback(S) ==
    \E s \in S :
       /\ sweep[s].pc = "selected"
       /\ \E done \in SUBSET sweep[s].rows : auto_refund_rollback(s, done)

NextEvents ==
    \/ Create(Receivers, CoreDecisions)
    \/ Tick(RefundWindow + 1)
    \/ Sweep({"s1"}) \/ SweepCommit({"s1"}) \/ SweepRollback({"s1"})

SpecEvents == Init /\ [][NextEvents]_vars

\* the admin backend next to a request thread of the user API
CreateAdmin ==
    /\ Len(transactions) < MaxTxSmall
    /\ Create({NoUser}, CoreDecisions)

NextAdmin ==
    \/ CreateAdmin
    \/ Cancel({"w1"}, Senders) \/ CancelCommit({"w1"})
    \/ AdminAction \/ AdminUpdate \/ AdminLog

SpecAdmin == Init /\ [][NextAdmin]_vars

\* one request thread of the user API alone
NextUser ==
    \/ Create(Receivers, CoreDecisions)
    \/ Confirm({"w1"}, Users) \/ ConfirmCommit({"w1"})
    \/ Cancel({"w1"}, Users) \/ CancelCommit({"w1"})
    \/ Decision({"w1"}, Users) \/ DecisionCommit({"w1"})

SpecUser == Init /\ [][NextUser]_vars

\* the decision rule over the whole input grid
NextDecide ==
    \/ Create({NoUser}, DecisionGrid)

SpecDecide == Init /\ [][NextDecide]_vars

\* the scheduler fires the job every SweepInterval: the clock does not pass a
\* fire time before the job has run.  A transaction is created only while its
\* refund deadline lies within the modelled horizon; MaxTxSmall bounds the
\* transactions of this and of the admin specification.
SweepDue(s) == sched[s] + SweepInterval <= now

TickFair ==
    /\ \A s \in {"s1"} : ~SweepDue(s) /\ sweep[s].pc = "idle"
    /\ Tick(1)

CreateFair ==
    /\ Len(transactions) < MaxTxSmall
    /\ now + RefundWindow + SweepInterval <= MaxTime
    /\ Create({NoUser}, CoreDecisions)

NextFair ==
    \/ CreateFair
    \/ TickFair
    \/ Confirm({"w1"}, Senders) \/ ConfirmCommit({"w1"})
    \/ Cancel({"w1"}, Senders) \/ CancelCommit({"w1"})
    \/ Sweep({"s1"}) \/ SweepCommit({"s1"})

SpecFair ==
    /\ Init /\ [][NextFair]_vars
    /\ WF_vars(TickFair)
    /\ WF_vars(Sweep({"s1"}))
    /\ WF_vars(SweepCommit({"s1"}))

\* ------------------------------------------------- compute_dynamic_thresholds
\* thresholds and adjustments in thousandths
MIN_DELAY_THRESHOLD == 250
MIN_BLOCK_THRESHOLD == 500
MAX_DELAY_THRESHOLD == 550
MAX_BLOCK_THRESHOLD == 850

Min(a, b) == IF a < b THEN a ELSE b
Max(a, b) == IF a > b THEN a ELSE b

\* DELAY_THRESHOLD / BLOCK_THRESHOLD of the environment (defaults 0.45 / 0.75)
BaseDelays == {450, 300, 900}
BaseBlocks == {750, 600, 400}

\* math.log1p(amount) / 200 for the amounts 0, 2, 1000, 50000 and 10^6
ThresholdAmounts == {0, 1000, 50000, 1000000}
AmountFactor(amount) ==
    CASE amount = 2 -> 5
      [] amount = 1000 -> 35
      [] amount = 50000 -> 54
      [] amount = 1000000 -> 69
      [] OTHER -> 0

ThresholdInputs ==
    [base_delay : BaseDelays, base_block : BaseBlocks, amount : ThresholdAmounts,
     account_age_days : {-30, 0, 15, 365}, risk_buffer_value : {0, 1000, 4000},
     is_night : {0, 1}, tx_count_1h : {0, 8, 20}]

ThresholdAdjustment(in) ==
    (IF in.amount > 0 THEN AmountFactor(in.amount) ELSE 0)
    + (IF in.account_age_days < 30
       THEN (80 * (30 - in.account_age_days)) \div 30 ELSE 0)
    + (IF in.risk_buffer_value > 500
       THEN Min(100, (in.risk_buffer_value * 4) \div 100) ELSE 0)
    + (IF in.is_night > 0 THEN 30 ELSE 0)
    + (IF in.tx_count_1h > 5 THEN Min(50, (in.tx_count_1h - 5) * 10) ELSE 0)

\* the result without the final delay < block correction
ThresholdsOf_unforced(in) ==
    LET adj == ThresholdAdjustment(in)
        delay == Max(MIN_DELAY_THRESHOLD, Min(MAX_DELAY_THRESHOLD, in.base_delay - adj))
        block == Max(MIN_BLOCK_THRESHOLD, Min(MAX_BLOCK_THRESHOLD, in.base_block - adj))
    IN [delay_threshold |-> delay, block_threshold |-> block]

ThresholdsOf(in) ==
    LET adj == ThresholdAdjustment(in)
        delay == Max(MIN_DELAY_THRESHOLD, Min(MAX_DELAY_THRESHOLD, in.base_delay - adj))
        block == Max(MIN_BLOCK_THRESHOLD, Min(MAX_BLOCK_THRESHOLD, in.base_block - adj))
    IN [delay_threshold |-> IF delay >= block THEN block - 50 ELSE delay,
        block_threshold |-> block]

compute_dynamic_thresholds ==
    /\ thresholds.pc = "called"
    /\ thresholds' = [pc |-> "returned", in |-> thresholds.in,
                      out |-> ThresholdsOf(thresholds.in)]
    /\ UNCHANGED <<core, store_up, bufvars, featvars, createvars, signalvars, wsvars, scorevars>>

InitThresholds ==
    /\ transactions = <<>>
    /\ transaction_ledger = EmptyBag
    /\ balance = [u \in Users |-> 0]
    /\ fraud_alerts = {}
    /\ admin_logs = <<>>
    /\ events = EmptyBag
    /\ now = 0
    /\ req = [w \in Workers |-> IdleReq]
    /\ resp = Reply("none", "none")
    /\ sweep = [s \in Sweepers |-> IdleSweep]
    /\ sched = [s \in Sweepers |-> 0]
    /\ admin = [a \in Admins |-> IdleAdmin]
    /\ store_up = TRUE
    /\ risk_buffer = [u \in Users |-> NoBuffer]
    /\ bufreq = [w \in Workers |-> IdleReq]
    /\ timestamps = [u \in Users |-> {}]
    /\ recipients = [u \in Users |-> {}]
    /\ extracted = <<>>
    /\ feature_r = "unset"
    /\ creq = [w \in Workers |-> IdleReq]
    /\ sequence_counter = 0
    /\ daily = [u \in Users |-> [total_amount |-> 0, transaction_count |-> 0]]
    /\ trust = [k \in Senders \X Vpas |-> NoTrust]
    /\ graph = NoGraph
    /\ drift = <<>>
    /\ InitWs
    /\ \E in \in ThresholdInputs : thresholds = [pc |-> "called", in |-> in]

NextThresholds ==
    \/ compute_dynamic_thresholds

SpecThresholds == InitThresholds /\ [][NextThresholds]_vars

\* --------------------------------------------------------- update_risk_buffer
\* buffer values and risks in thousandths, the decay factor in hundredths
DECAY_FACTOR == 85
ESCALATE_THRESHOLD == 2500
BLOCK_THRESHOLD == 4000

MaxUpdates == 3
BufferRisks == {300, 2000}

\* the Redis list commands: LPUSH puts the value at the head, LTRIM keeps the
\* positions start..stop (counted from 0)
LPush(list, x) == <<x>> \o list
LTrim_inclusive_after(list, start, stop) ==
    SubSeq(list, start + 1, IF stop + 2 < Len(list) THEN stop + 2 ELSE Len(list))
LTrim(list, start, stop) ==
    SubSeq(list, start + 1, IF stop + 1 < Len(list) THEN stop + 1 ELSE Len(list))

\* pipe.lpush(_key_history(user_id), ...); pipe.ltrim(_key_history(user_id), 0, 19)
HISTORY_LAST == 19
HistoryPushed(history, risk) == LTrim(LPush(history, risk), 0, HISTORY_LAST)

\* pipe.lpush(key, value); pipe.ltrim(key, 0, WINDOW_SIZE - 1)
WINDOW_SIZE == 1000
LiveRecorded(live, value) == LTrim(LPush(live, value), 0, WINDOW_SIZE - 1)

\* DECAY_FACTOR ** (elapsed_hours / 6) for an elapsed time of a few minutes
PassiveDecay(value, elapsed) == (value * (100000 - 45 * elapsed)) \div 100000

\* get_risk_buffer: the stored value with the passive decay applied
BufferValue(u) ==
    IF ~store_up \/ risk_buffer[u].value = Null THEN 0
    ELSE IF now - risk_buffer[u].last_ts > 0
    THEN PassiveDecay(risk_buffer[u].value, now - risk_buffer[u].last_ts)
    ELSE risk_buffer[u].value

Decayed(old, risk) == (old * DECAY_FACTOR) \div 100 + risk

ActionModifier(buffer) ==
    IF buffer >= BLOCK_THRESHOLD THEN "BLOCK"
    ELSE IF buffer >= ESCALATE_THRESHOLD THEN "ESCALATE"
    ELSE "NONE"

BufferCalls == Len(risk_buffer["u1"].history) +
               Cardinality({w \in Workers : bufreq[w].pc = "read"})

\* old_buffer, _ = get_risk_buffer(user_id): 0.0 when the store does not answer
update_risk_buffer_read(w, u, risk) ==
    /\ bufreq[w].pc = "idle"
    /\ bufreq' = [bufreq EXCEPT ![w] =
                    [pc |-> "read", user_id |-> u, current_risk |-> risk,
                     old_buffer |-> BufferValue(u)]]
    /\ UNCHANGED <<core, thresholds, store_up, risk_buffer, featvars, createvars, signalvars, wsvars, scorevars>>

\* the pipeline that stores value, last_ts and history in one EXEC
update_risk_buffer_write(w) ==
    /\ bufreq[w].pc = "read"
    /\ LET u == bufreq[w].user_id
           new_buffer == Decayed(bufreq[w].old_buffer, bufreq[w].current_risk)
       IN IF store_up
          THEN /\ risk_buffer' =
                    [risk_buffer EXCEPT
                       ![u] = [value |-> new_buffer, last_ts |-> now,
                               history |-> HistoryPushed(@.history,
                                                         bufreq[w].current_risk)]]
               /\ bufreq' = [bufreq EXCEPT ![w] =
                               [pc |-> "idle", user_id |-> u,
                                current_risk |-> bufreq[w].current_risk,
                                out |-> <<new_buffer, ActionModifier(new_buffer)>>]]
          ELSE /\ risk_buffer' = risk_buffer
               /\ bufreq' = [bufreq EXCEPT ![w] =
                               [pc |-> "idle", user_id |-> u,
                                current_risk |-> bufreq[w].current_risk,
                                out |-> <<0, "NONE">>]]
    /\ UNCHANGED <<core, thresholds, store_up, featvars, createvars, signalvars, wsvars, scorevars>>

BufferRead(W) ==
    /\ BufferCalls < MaxUpdates
    /\ \E w \in W, u \in Senders, risk \in BufferRisks : update_risk_buffer_read(w, u, risk)

BufferWrite(W) == \E w \in W : update_risk_buffer_write(w)

\* two scoring threads updating the buffer of one user
NextBuffer ==
    \/ BufferRead(Workers) \/ BufferWrite(Workers)

SpecBuffer == Init /\ [][NextBuffer]_vars

\* ------------------------------------------------------------ extract_features
\* timestamps in minutes
Hour == 60
Day == 1440

MaxExtractions == 3
Stamps == {0, 30, 60, 90, 1500}

\* ZADD of the member str(now_ts), then ZREMRANGEBYSCORE 0 .. now_ts - 86400
Ticked(zset, ts) == {x \in zset \cup {ts} : x > ts - Day}

\* ZCOUNT now_ts - seconds .. now_ts
ZCount(zset, lo, hi) == Cardinality({x \in zset : lo <= x /\ x <= hi})

\* feature_engine.extract_features, or scoring.extract_features_fallback when
\* the store raises
\* feature_engine.r after the module's import: the connection made at the
\* first extraction, None when the store did not answer then
LoadedClient ==
    IF feature_r = "unset" THEN (IF store_up THEN "client" ELSE "none") ELSE feature_r

\* the velocity and recipient features (is_new_recipient in thousandths):
\* the defaults of r = None, the fallback's when the store raises
Features(u, vpa, ts) ==
    [user_id |-> u, recipient |-> vpa, ts |-> ts,
     tx_count_1h |-> IF LoadedClient = "none" THEN 1
                     ELSE IF store_up THEN ZCount(Ticked(timestamps[u], ts), ts - Hour, ts)
                     ELSE 0,
     is_new_recipient |-> IF LoadedClient = "none" THEN 300
                          ELSE IF store_up /\ vpa \notin recipients[u] THEN 1000
                          ELSE 0]

extract_features(u, rcpt, ts) ==
    /\ Len(extracted) < MaxExtractions
    /\ feature_r' = LoadedClient
    /\ timestamps' = IF LoadedClient = "client" /\ store_up
                     THEN [timestamps EXCEPT ![u] = Ticked(@, ts)]
                     ELSE timestamps
    /\ extracted' = Append(extracted, Features(u, rcpt, ts))
    /\ UNCHANGED <<core, thresholds, store_up, bufvars, recipients, createvars, signalvars, wsvars, scorevars>>

Extract == \E u \in Senders, rcpt \in Vpas, ts \in Stamps : extract_features(u, rcpt, ts)

\* feature extractions of one sender, one after the other
NextVelocity ==
    \/ Extract

SpecVelocity == Init /\ [][NextVelocity]_vars

\* ------------------------------------------------ generate_upi_transaction_id
MaxCreates == 2

SEQ_LIMIT == 999999
SEQ_WIDTH == 6

MaxOf(S) == IF S = {} THEN 0 ELSE CHOOSE x \in S : \A y \in S : y <= x

\* the sequence of the last row of a day that is nearly used up
DayStart == SEQ_LIMIT - 1

\* the ids of that day's earlier rows, which the model does not hold as rows
EarlierIds ==
    IF transactions # <<>> /\ transactions[1].tx_id = DayStart THEN 1..(DayStart - 1)
    ELSE {}

\* the primary key transactions.tx_id
IsCommitted(id) ==
    id \in EarlierIds \/ \E i \in 1..Len(transactions) : transactions[i].tx_id = id

\* SELECT COALESCE(MAX(CAST(SUBSTR(tx_id, 7, 6) AS INTEGER)), 0)
MaxSeq == MaxOf({transactions[i].tx_id : i \in 1..Len(transactions)})

\* the sequence chosen, given max_seq and the in-memory counter after its increment
NextSequence(max_seq, counter) ==
    LET sequence == IF max_seq # 0 THEN max_seq + 1 ELSE counter
    IN IF sequence > SEQ_LIMIT THEN 1 ELSE sequence

RECURSIVE Digits(_)
Digits(n) == IF n < 10 THEN 1 ELSE 1 + Digits(n \div 10)

\* str(sequence).zfill(6): the length of the sequence component
SequenceComponentLen(sequence) == Max(SEQ_WIDTH, Digits(sequence))

\* receiver lookup by the phone number of the VPA: r2 is the registered user u2
ReceiverOf(vpa) == IF vpa = "r2" THEN "u2" ELSE NoUser

CreateCalls == Len(extracted) + Cardinality({w \in Workers : creq[w].pc = "generated"})

\* create_transaction up to the transaction object: tx_id, receiver, ts
create_generate(c, u, vpa, amt) ==
    /\ creq[c].pc = "idle"
    /\ CreateCalls < MaxCreates
    /\ sequence_counter < MaxCreates
    /\ LET counter == IF MaxSeq # 0 THEN sequence_counter ELSE sequence_counter + 1
       IN /\ sequence_counter' = counter
          /\ creq' = [creq EXCEPT ![c] =
                        [pc |-> "generated", user_id |-> u, recipient_vpa |-> vpa,
                         receiver_user_id |-> ReceiverOf(vpa), amount |-> amt,
                         tx_id |-> NextSequence(MaxSeq, counter), ts |-> now]]
    /\ UNCHANGED <<core, thresholds, store_up, bufvars, featvars, daily, signalvars, wsvars, scorevars>>

\* ------------------------------------------------------- the scoring pipeline
\* scores in thousandths
ScorerOutcomes == {"ok", "raise"}
MlScores == {200, 500, 900}

\* math.log1p(tx_count) / math.log1p(20)
FreqScore(tx_count) ==
    CASE tx_count = 0 -> 0
      [] tx_count = 1 -> 228
      [] tx_count = 2 -> 361
      [] OTHER -> 455

\* math.log1p(total_amount) / math.log1p(50000)
VolScore(total_amount) ==
    CASE total_amount = 0 -> 0
      [] total_amount = 2 -> 102
      [] total_amount = 4 -> 149
      [] OTHER -> 180

\* the score from the stored counters; days_known is 0 on the modelled time scale
TrustFromKeys(u, vpa) ==
    LET t == trust[<<u, vpa>>]
        raw == (350 * FreqScore(t.tx_count) + 250 * VolScore(t.total_amount)) \div 1000
        penalized == Max(0, raw - Min(1000, t.fraud_flags * 500))
    IN IF t.tx_count = 0 /\ t.fraud_flags = 0 THEN Max(penalized, 300)
       ELSE penalized

\* the score computed from counters read before the outage
TrustScore_stale(u, vpa) == TrustFromKeys(u, vpa)

\* compute_trust_score: the baseline when the store does not answer
TrustScore(u, vpa) == IF ~store_up THEN 300 ELSE TrustFromKeys(u, vpa)

\* apply_trust_discount
TrustDiscount(risk, trust_score) == (risk * (1000 - (300 * trust_score) \div 1000)) \div 1000

\* compute_graph_signals; the device components are disabled in the code
GraphRisk(u, vpa) ==
    IF ~store_up THEN 0
    ELSE LET total == Cardinality({e \in graph.recipient_senders : e[1] = vpa})
             fraud == Cardinality({e \in graph.recipient_fraud_senders : e[1] = vpa})
             ratio == IF total > 0 /\ fraud > 0 THEN (1000 * fraud) \div total ELSE 0
             user_risk == Min(1000, graph.user_fraud_count[u] * 300)
         IN Min(1000, (450 * ratio + 400 * user_risk) \div 1000)

\* the pipeline's results for an ML score ml
Scored(r, ml) ==
    LET u == r.user_id
        vpa == r.recipient_vpa
        f == Features(u, vpa, r.ts)
        trust_score == TrustScore(u, vpa)
        discounted == TrustDiscount(ml, trust_score)
        graph_risk == GraphRisk(u, vpa)
        risk == IF graph_risk > 300 THEN (800 * discounted + 200 * graph_risk) \div 1000
                ELSE discounted
        buffer == IF store_up THEN Decayed(BufferValue(u), risk) ELSE 0
        th == ThresholdsOf([base_delay |-> 450, base_block |-> 750, amount |-> r.amount,
                            account_age_days |-> 365, risk_buffer_value |-> buffer,
                            is_night |-> 0, tx_count_1h |-> f.tx_count_1h])
    IN [ml_score |-> ml, features |-> f, trust_score |-> trust_score,
        graph_risk |-> graph_risk, risk_score |-> risk, risk_buffer_value |-> buffer,
        buffer_action |-> IF store_up THEN ActionModifier(buffer) ELSE "NONE",
        delay |-> th.delay_threshold, block |-> th.block_threshold]

\* how the record_live_features pipeline ends
LiveOutcomes == {"ok", "raise"}

\* Step 5: record_live_features(features) in its two try/except blocks; nothing
\* it raises leaves the step
RecordLive_uncaught(live, value, outcome) ==
    [live |-> IF store_up /\ outcome = "ok" THEN LiveRecorded(live, value) ELSE live,
     raised |-> outcome = "raise"]
RecordLive(live, value, outcome) ==
    [live |-> IF store_up /\ outcome = "ok" THEN LiveRecorded(live, value) ELSE live,
     raised |-> FALSE]

\* the `except Exception` of the scoring block: the risk score by the amount
FallbackRisk(amount) ==
    IF amount > 50000 THEN 500
    ELSE IF amount > 25000 THEN 300
    ELSE IF amount > 10000 THEN 150
    ELSE 50

\* create_transaction from score_transaction to the explainability record
create_score(c, scorer, ml, outcome) ==
    /\ creq[c].pc = "generated"
    /\ LET r == creq[c]
           u == r.user_id
           rec == RecordLive(drift, r.amount, outcome)
           sc == IF rec.raised
                 THEN [Scored(r, ml) EXCEPT !.risk_score = FallbackRisk(r.amount)]
                 ELSE Scored(r, ml)
           action == DecideAction(sc.risk_score, sc.delay, sc.block, sc.buffer_action)
       IN IF scorer = "raise"
          \* the except branch sets risk_score by the amount (0.05 to 0.5) and
          \* the reasons; features and scoring_details stay unbound and the
          \* explainability dict raises UnboundLocalError
          THEN /\ creq' = [creq EXCEPT ![c] = IdleReq]
               /\ resp' = Reply(c, "500_unbound")
               /\ UNCHANGED <<timestamps, extracted, feature_r, risk_buffer, drift>>
          ELSE /\ creq' = [creq EXCEPT ![c] =
                             [pc |-> "scored", user_id |-> u,
                              recipient_vpa |-> r.recipient_vpa,
                              receiver_user_id |-> r.receiver_user_id,
                              amount |-> r.amount, tx_id |-> r.tx_id, ts |-> r.ts,
                              store_seen |-> store_up, scored |-> sc,
                              action |-> action, db_status |-> StatusFor(action)]]
               /\ resp' = resp
               /\ feature_r' = LoadedClient
               /\ timestamps' = IF LoadedClient = "client" /\ store_up
                                THEN [timestamps EXCEPT ![u] = Ticked(@, r.ts)]
                                ELSE timestamps
               /\ extracted' = Append(extracted, sc.features)
               /\ risk_buffer' =
                    IF store_up
                    THEN [risk_buffer EXCEPT
                            ![u] = [value |-> sc.risk_buffer_value, last_ts |-> now,
                                    history |-> HistoryPushed(@.history, sc.risk_score)]]
                    ELSE risk_buffer
               /\ drift' = rec.live
    /\ UNCHANGED <<transactions, transaction_ledger, balance, fraud_alerts, admin_logs,
                   events, now, req, sweep, sched, admin>>
    /\ UNCHANGED <<thresholds, store_up, bufreq, recipients, sequence_counter, daily,
                   trust, graph, wsvars, scorevars>>

\* ------------------------------------------------- INSERT through conn.commit()
\* where a database statement of the request fails
DbFailures == {"none", "statement", "commit"}

\* how far the request gets: 0 the INSERT raises UniqueViolation, 1 the SADD
\* raises, 2 the statement after it fails, 3 the commit fails, 4 committed
StageReached(r, fail) ==
    IF IsCommitted(r.tx_id) THEN 0
    ELSE IF r.action = "ALLOW" /\ ~store_up THEN 1
    ELSE IF fail = "statement" THEN 2
    ELSE IF fail = "commit" THEN 3
    ELSE 4

ResponseAt(stage) ==
    CASE stage = 0 -> "500_conflict"
      [] stage = 1 -> "500_store_error"
      [] stage = 4 -> "200_created"
      [] OTHER -> "500_db_error"

\* the request from the INSERT on; on an autocommit connection every
\* statement executed would persist, otherwise only conn.commit() persists
insert_steps(c, fail, autocommit) ==
    /\ creq[c].pc = "scored"
    /\ LET r == creq[c]
           t == r.tx_id
           u == r.user_id
           vpa == r.recipient_vpa
           rcv == r.receiver_user_id
           allow == r.action = "ALLOW"
           credited == allow /\ rcv # NoUser
           stage == StageReached(r, fail)
           row_kept == stage = 4 \/ (autocommit /\ stage >= 1)
           rest_kept == stage = 4 \/ (autocommit /\ stage >= 3)
           row == [tx_id |-> t, user_id |-> u, receiver_user_id |-> rcv,
                   amount |-> r.amount, risk_score |-> r.scored.risk_score,
                   action |-> r.action, db_status |-> r.db_status,
                   amount_deducted_at |-> DeductedAt(r.action, now),
                   amount_credited_at |-> IF credited /\ rest_kept THEN now ELSE Null,
                   created_at |-> now,
                   explainability |-> [delay |-> r.scored.delay, block |-> r.scored.block,
                                       buffer_action |-> r.scored.buffer_action],
                   recipient_vpa |-> vpa]
       IN /\ transactions' = IF row_kept THEN Append(transactions, row) ELSE transactions
          /\ transaction_ledger' =
               IF rest_kept
               THEN AddAll(transaction_ledger,
                           (IF allow THEN {Entry(t, "DEBIT", u, r.amount)} ELSE {})
                           \cup (IF credited THEN {Entry(t, "CREDIT", rcv, r.amount)}
                                 ELSE {}))
               ELSE transaction_ledger
          /\ balance' = IF rest_kept /\ credited THEN Credit(balance, rcv, r.amount)
                        ELSE balance
          /\ fraud_alerts' =
               IF rest_kept /\ ~allow
               THEN fraud_alerts \cup
                      {[tx_id |-> t, user_id |-> u, alert_type |-> r.action,
                        user_decision |-> "none", resolved_at |-> Null]}
               ELSE fraud_alerts
          /\ daily' = IF rest_kept
                      THEN [daily EXCEPT ![u].total_amount = @ + r.amount,
                                         ![u].transaction_count = @ + 1]
                      ELSE daily
          \* redis_client.sadd(rec_key, recipient_vpa), before the ledger INSERT
          /\ recipients' = IF allow /\ stage >= 2
                           THEN [recipients EXCEPT ![u] = @ \cup {vpa}]
                           ELSE recipients
          \* trust_record / record_fraud_flag, each in its own try
          /\ trust' =
               IF stage >= 3 /\ store_up /\ r.action # "DELAY"
               THEN IF allow
                    THEN [trust EXCEPT ![<<u, vpa>>].tx_count = @ + 1,
                                       ![<<u, vpa>>].total_amount = @ + r.amount]
                    ELSE [trust EXCEPT ![<<u, vpa>>].fraud_flags = @ + 1]
               ELSE trust
          \* record_transaction_edge / record_fraud_edge
          /\ graph' =
               IF stage >= 3 /\ store_up
               THEN [recipient_senders |-> graph.recipient_senders \cup {<<vpa, u>>},
                     recipient_fraud_senders |->
                        IF r.action = "BLOCK"
                        THEN graph.recipient_fraud_senders \cup {<<vpa, u>>}
                        ELSE graph.recipient_fraud_senders,
                     user_fraud_count |->
                        IF r.action = "BLOCK"
                        THEN [graph.user_fraud_count EXCEPT ![u] = @ + 1]
                        ELSE graph.user_fraud_count]
               ELSE graph
          /\ events' =
               IF stage = 4
               THEN AddAll(events,
                           {Event("transaction_created", t, u)}
                           \cup (IF allow THEN {Event("balance_updated", t, u)} ELSE {})
                           \cup (IF credited THEN {Event("transaction_received", t, rcv)}
                                 ELSE {}))
               ELSE events
          /\ resp' = Reply(c, ResponseAt(stage))
          /\ creq' = [creq EXCEPT ![c] = IdleReq]
    /\ UNCHANGED <<admin_logs, now, req, sweep, sched, admin>>
    /\ UNCHANGED <<thresholds, store_up, bufvars, timestamps, extracted, feature_r,
                   sequence_counter, drift, wsvars, scorevars>>

create_insert_autocommit(c, fail) == insert_steps(c, fail, TRUE)

create_insert(c, fail) == insert_steps(c, fail, FALSE)

\* the rolling store becomes unreachable, and reachable again
store_fail ==
    /\ store_up
    /\ store_up' = FALSE
    /\ UNCHANGED <<core, thresholds, bufvars, featvars, createvars, signalvars, wsvars, scorevars>>

store_recover ==
    /\ ~store_up
    /\ store_up' = TRUE
    /\ UNCHANGED <<core, thresholds, bufvars, featvars, createvars, signalvars, wsvars, scorevars>>

Generate(C, V) ==
    \E c \in C, u \in Senders, vpa \in V, amt \in Amounts : create_generate(c, u, vpa, amt)

Score(C, S, M, L) ==
    \E c \in C, scorer \in S, ml \in M, outcome \in L : create_score(c, scorer, ml, outcome)

Insert(C, F) == \E c \in C, fail \in F : create_insert(c, fail)

\* the blocked row of a day whose sequence is nearly used up
LastRow ==
    [tx_id |-> DayStart, user_id |-> "u1", receiver_user_id |-> NoUser, amount |-> 2,
     risk_score |-> 900, action |-> "BLOCK", db_status |-> "blocked",
     amount_deducted_at |-> Null, amount_credited_at |-> Null, created_at |-> 0,
     explainability |-> [delay |-> 455, block |-> 755, buffer_action |-> "NONE"],
     recipient_vpa |-> "r1"]

LastAlert ==
    [tx_id |-> DayStart, user_id |-> "u1", alert_type |-> "BLOCK",
     user_decision |-> "none", resolved_at |-> Null]

\* a worker process at the start of a day, or late on a day that is nearly used up
InitCreate ==
    /\ transactions \in {<<>>, <<LastRow>>}
    /\ fraud_alerts = IF transactions = <<>> THEN {} ELSE {LastAlert}
    /\ transaction_ledger = EmptyBag
    /\ balance = [u \in Users |-> 0]
    /\ admin_logs = <<>>
    /\ events = EmptyBag
    /\ now = 0
    /\ req = [w \in Workers |-> IdleReq]
    /\ resp = Reply("none", "none")
    /\ sweep = [s \in Sweepers |-> IdleSweep]
    /\ sched = [s \in Sweepers |-> 0]
    /\ admin = [a \in Admins |-> IdleAdmin]
    /\ thresholds = NoThresholds
    /\ store_up = TRUE
    /\ risk_buffer = [u \in Users |-> NoBuffer]
    /\ bufreq = [w \in Workers |-> IdleReq]
    /\ timestamps = [u \in Users |-> {}]
    /\ recipients = [u \in Users |-> {}]
    /\ extracted = <<>>
    /\ feature_r = "unset"
    /\ creq = [w \in Workers |-> IdleReq]
    /\ sequence_counter = 0
    /\ daily = [u \in Users |-> [total_amount |-> 0, transaction_count |-> 0]]
    /\ trust = [k \in Senders \X Vpas |-> NoTrust]
    /\ graph = NoGraph
    /\ drift = <<>>
    /\ InitWs

\* two request threads of one worker process creating transactions
NextIds ==
    \/ Generate(Workers, {"r1"})
    \/ Score(Workers, {"ok"}, {200, 500}, {"ok"})
    \/ Insert(Workers, {"none"})

SpecIds == InitCreate /\ [][NextIds]_vars

\* one request thread, database statements failing, the rolling store going away
NextCreate ==
    \/ Generate({"w1"}, Vpas)
    \/ Score({"w1"}, {"ok"}, MlScores, {"ok"})
    \/ Insert({"w1"}, DbFailures)
    \/ store_fail
    \/ store_recover

SpecCreate == Init /\ [][NextCreate]_vars

\* one request thread, the scorer raising, the rolling store going away
NextScoring ==
    \/ Generate({"w1"}, Vpas)
    \/ Score({"w1"}, ScorerOutcomes, MlScores, {"ok"})
    \/ Insert({"w1"}, {"none"})
    \/ store_fail
    \/ store_recover

SpecScoring == Init /\ [][NextScoring]_vars

\* one request thread creating, the user confirming the delayed transactions
NextRecipients ==
    \/ Generate({"w1"}, Vpas)
    \/ Score({"w1"}, {"ok"}, MlScores, {"ok"})
    \/ Insert({"w1"}, {"none"})
    \/ Confirm({"w2"}, Senders)
    \/ ConfirmCommit({"w2"})

SpecRecipients == Init /\ [][NextRecipients]_vars

\* one request thread, the drift recording failing, the rolling store going away
NextDrift ==
    \/ Generate({"w1"}, Vpas)
    \/ Score({"w1"}, {"ok"}, MlScores, LiveOutcomes)
    \/ Insert({"w1"}, {"none"})
    \/ store_fail
    \/ store_recover

SpecDrift == Init /\ [][NextDrift]_vars

\* ------------------------------------------- new_transaction (POST /transactions)
\* THRESHOLDS of the admin backend, in hundredths
THRESHOLDS_DELAY == 30
THRESHOLDS_BLOCK == 60

IngestRisks == {10, 75}
IngestActions == {"", "ALLOW"}

\* the action of the posted transaction, or the one derived from the score
IngestAction(act, risk) ==
    IF act # "" THEN act
    ELSE IF risk >= THRESHOLDS_BLOCK THEN "BLOCK"
    ELSE IF risk >= THRESHOLDS_DELAY THEN "DELAY"
    ELSE "ALLOW"

\* the explainability of the admin backend's scoring: no thresholds, no buffer
IngestExplainability == [delay |-> Null, block |-> Null, buffer_action |-> "NONE"]

\* score the posted transaction, then INSERT ... ON CONFLICT (tx_id) DO UPDATE
new_transaction(t, u, amt, risk, act) ==
    /\ t \in 1..(Len(transactions) + 1)
    /\ t <= MaxTxSmall
    /\ Len(extracted) < MaxExtractions
    /\ feature_r' = LoadedClient
    /\ timestamps' = IF LoadedClient = "client" /\ store_up
                     THEN [timestamps EXCEPT ![u] = Ticked(@, now)]
                     ELSE timestamps
    /\ extracted' = Append(extracted, Features(u, "r1", now))
    /\ transactions' =
         IF t \in TxIds
         THEN [transactions EXCEPT
                 ![t].risk_score = risk,
                 ![t].action = IngestAction(act, risk),
                 ![t].db_status = "inserted",
                 ![t].explainability = IngestExplainability,
                 ![t].created_at = now]
         ELSE Append(transactions,
                     [tx_id |-> t, user_id |-> u, receiver_user_id |-> NoUser,
                      amount |-> amt, risk_score |-> risk,
                      action |-> IngestAction(act, risk), db_status |-> "inserted",
                      amount_deducted_at |-> Null, amount_credited_at |-> Null,
                      created_at |-> now, explainability |-> IngestExplainability])
    /\ UNCHANGED <<transaction_ledger, balance, fraud_alerts, admin_logs, events, now,
                   req, resp, sweep, sched, admin>>
    /\ UNCHANGED <<thresholds, store_up, bufvars, recipients, createvars, signalvars, wsvars, scorevars>>

Ingest ==
    \E t \in 1..MaxTx, u \in Senders, amt \in Amounts, risk \in IngestRisks,
       act \in IngestActions :
        new_transaction(t, u, amt, risk, act)

\* the user API, the auto-refund job and the ingestion endpoint on one database
NextIngest ==
    \/ CreateAdmin
    \/ Confirm({"w1"}, Senders) \/ ConfirmCommit({"w1"})
    \/ Sweep({"s1"}) \/ SweepCommit({"s1"})
    \/ Tick(RefundWindow + 1)
    \/ Ingest

SpecIngest == Init /\ [][NextIngest]_vars

\* ------------------------------------------------------- score_with_ensemble
\* model scores in thousandths; Null: the model is not loaded or its call raises
ModelScores == {Null, 100, 300, 500, 600}
FallbackScores == {50, 350}

Present(m) == {k \in DOMAIN m : m[k] # Null}

RECURSIVE SumOver(_, _)
SumOver(f, keys) ==
    IF keys = {} THEN 0
    ELSE LET k == CHOOSE x \in keys : TRUE IN f[k] + SumOver(f, keys \ {k})

Weights == [iforest |-> 200, random_forest |-> 400, xgboost |-> 400]

\* Confidence level from disagreement
ConfidenceOf(disagreement) ==
    IF disagreement < 200 THEN "HIGH"
    ELSE IF disagreement <= 400 THEN "MEDIUM"
    ELSE "LOW"

\* the dict score_with_ensemble returns; convert_ok: features_to_vector did not raise
EnsembleScores(convert_ok, m, fallback) ==
    IF ~convert_ok
    THEN [ensemble |-> fallback, final_risk_score |-> fallback, disagreement |-> 0,
          confidence_level |-> "LOW"]
    ELSE IF Present(m) = {}
    THEN [ensemble |-> fallback, final_risk_score |-> fallback, disagreement |-> 0,
          confidence_level |-> "HIGH"]
    ELSE LET have == Present(m)
             values == {m[k] : k \in have}
             weighted == SumOver([k \in have |-> m[k] * Weights[k]], have)
             spread == MaxOf(values) - (CHOOSE v \in values : \A w \in values : v <= w)
         IN [ensemble |-> weighted \div SumOver(Weights, have),
             final_risk_score |-> SumOver(m, have) \div Cardinality(have),
             disagreement |-> spread,
             confidence_level |-> ConfidenceOf(spread)]

score_with_ensemble(convert_ok, m, fallback) ==
    /\ ensemble' = [pc |-> "returned", call |-> "score_with_ensemble",
                    out |-> EnsembleScores(convert_ok, m, fallback)]
    /\ UNCHANGED <<core, thresholds, store_up, bufvars, featvars, createvars, signalvars,
                   wsvars>>

\* score_transaction(tx, return_details=True); raised: extract_features or
\* explain_transaction raises and the emergency fallback is returned
score_transaction(raised, convert_ok, m, fallback) ==
    /\ ensemble' =
         [pc |-> "returned", call |-> "score_transaction",
          out |-> IF raised
                  THEN [ensemble |-> 500, final_risk_score |-> 500, disagreement |-> 0,
                        confidence_level |-> "LOW"]
                  ELSE EnsembleScores(convert_ok, m, fallback)]
    /\ UNCHANGED <<core, thresholds, store_up, bufvars, featvars, createvars, signalvars,
                   wsvars>>

ModelInputs == [iforest : ModelScores, random_forest : ModelScores, xgboost : ModelScores]

ScoreEnsemble ==
    \E convert_ok \in BOOLEAN, m \in ModelInputs, fallback \in FallbackScores :
        score_with_ensemble(convert_ok, m, fallback)

ScoreTransaction ==
    \E raised \in BOOLEAN, convert_ok \in BOOLEAN, m \in ModelInputs,
       fallback \in FallbackScores :
        score_transaction(raised, convert_ok, m, fallback)

NextEnsemble == ScoreEnsemble \/ ScoreTransaction
SpecEnsemble == Init /\ [][NextEnsemble]_vars

\* ------------------------------------------------------- balances and ledger
\* a confirming thread, a cancelling or deciding thread and the auto-refund job
CreateFew ==
    /\ Len(transactions) < MaxTxSmall
    /\ Create(Receivers, CoreDecisions)

NextLedger ==
    \/ CreateFew
    \/ Tick(RefundWindow + 1)
    \/ Confirm({"w1"}, Senders) \/ ConfirmCommit({"w1"})
    \/ Cancel({"w2"}, Senders) \/ CancelCommit({"w2"})
    \/ Decision({"w2"}, Senders) \/ DecisionCommit({"w2"})
    \/ Sweep({"s1"}) \/ SweepCommit({"s1"})

SpecLedger == Init /\ [][NextLedger]_vars

\* --------------------------------------------------- user_daily_transactions
\* two request threads creating transactions next to the ingestion endpoint
NextDaily ==
    \/ Generate(Workers, {"r1"})
    \/ Score(Workers, {"ok"}, {200, 500}, {"ok"})
    \/ Insert(Workers, {"none", "commit"})
    \/ Ingest

SpecDaily == Init /\ [][NextDaily]_vars

\* the same without the ingestion endpoint
NextDailyCreate ==
    \/ Generate(Workers, {"r1"})
    \/ Score(Workers, {"ok"}, {200, 500}, {"ok"})
    \/ Insert(Workers, {"none", "commit"})

SpecDailyCreate == Init /\ [][NextDailyCreate]_vars

\* SUM(amount) over the first n rows of sender u
RECURSIVE AmountOf(_, _)
AmountOf(u, n) ==
    IF n = 0 THEN 0
    ELSE AmountOf(u, n - 1)
         + (IF transactions[n].user_id = u THEN transactions[n].amount ELSE 0)

\* ------------------------------------------------- ws_manager.send_to_user
WsFrame == <<core, thresholds, store_up, bufvars, featvars, createvars, signalvars,
            scorevars>>

\* list.remove(websocket): the first occurrence goes, the rest shifts down
RemoveSession(list, s) ==
    IF \E i \in 1..Len(list) : list[i] = s
    THEN LET i == CHOOSE k \in 1..Len(list) :
                      list[k] = s /\ \A j \in 1..(k - 1) : list[j] # s
         IN SubSeq(list, 1, i - 1) \o SubSeq(list, i + 1, Len(list))
    ELSE list

\* the user's entry left in the map with an empty list
disconnect_keeps_empty(state, s) ==
    IF s \in state[2]
    THEN <<IF WsUser \in state[3] THEN RemoveSession(state[1], s) ELSE state[1],
           state[2] \ {s}, state[3]>>
    ELSE state

\* WebSocketManager.disconnect, applied to the triple
\* <<active_connections[user], connection_info, keys of active_connections>>
disconnect(state, s) ==
    IF s \in state[2]
    THEN LET list == IF WsUser \in state[3] THEN RemoveSession(state[1], s)
                     ELSE state[1]
             keys == IF WsUser \in state[3] /\ list = <<>> THEN state[3] \ {WsUser}
                     ELSE state[3]
         IN <<list, state[2] \ {s}, keys>>
    ELSE state

RECURSIVE disconnect_all(_, _)
disconnect_all(state, list) ==
    IF list = <<>> THEN state
    ELSE disconnect_all(disconnect(state, Head(list)), Tail(list))

\* _fire_ws_event: loop.call_soon_threadsafe(asyncio.ensure_future, coro), from a worker thread
fire_ws_event(e) ==
    /\ ws_tasks[e].pc = "new"
    /\ \A d \in EventIds : d < e => ws_tasks[d].pc # "new"
    /\ ws_tasks' = [ws_tasks EXCEPT ![e].pc = "scheduled"]
    /\ ready' = Append(ready, e)
    /\ UNCHANGED <<active_connections, active_users, connection_info, broken, waiters,
                   running, received>>
    /\ UNCHANGED WsFrame

\* the loop starts the coroutines in the order they were scheduled:
\* `if user_id in self.active_connections`, then the iterator over the live list
send_to_user_start(e) ==
    /\ running = 0
    /\ ready # <<>>
    /\ e = Head(ready)
    /\ ready' = Tail(ready)
    /\ IF WsUser \notin active_users
       THEN /\ ws_tasks' = [ws_tasks EXCEPT ![e].pc = "done"]
            /\ running' = 0
       ELSE /\ ws_tasks' = [ws_tasks EXCEPT ![e].pc = "loop", ![e].idx = 1,
                               ![e].at_start =
                                   {active_connections[i] : i \in 1..Len(active_connections)}]
            /\ running' = e
    /\ UNCHANGED <<active_connections, active_users, connection_info, broken, waiters,
                   received>>
    /\ UNCHANGED WsFrame

\* one turn of `for connection in self.active_connections[user_id]`; suspend says whether
\* `await connection.send_text` gives the loop away. A session's writes complete in order,
\* so a send behind a suspended one suspends too. Past the end of the list the
\* sessions that raised are disconnected.
send_to_user_step(e, suspend) ==
    /\ running = e
    /\ ws_tasks[e].pc = "loop"
    /\ LET t == ws_tasks[e]
       IN IF t.detached \/ t.idx > Len(active_connections)
          THEN LET after == disconnect_all(<<active_connections, connection_info,
                                             active_users>>,
                                           t.disconnected_connections)
               IN /\ ~suspend
                  /\ active_connections' = after[1]
                  /\ connection_info' = after[2]
                  /\ active_users' = after[3]
                  /\ ws_tasks' = [ws_tasks EXCEPT ![e].pc = "done"]
                  /\ running' = 0
                  /\ UNCHANGED <<waiters, received>>
          ELSE LET c == active_connections[t.idx]
               IN IF c \in broken
                  THEN /\ ~suspend
                       /\ ws_tasks' = [ws_tasks EXCEPT
                              ![e].disconnected_connections = Append(@, c),
                              ![e].idx = @ + 1]
                       /\ UNCHANGED <<active_connections, active_users,
                                      connection_info, waiters,
                                      running, received>>
                  ELSE /\ received' = [received EXCEPT ![c] = Append(@, e)]
                       /\ IF suspend
                          THEN /\ waiters' = [waiters EXCEPT ![c] = Append(@, e)]
                               /\ ws_tasks' = [ws_tasks EXCEPT ![e].pc = "await"]
                               /\ running' = 0
                          ELSE /\ waiters[c] = <<>>
                               /\ ws_tasks' = [ws_tasks EXCEPT ![e].idx = @ + 1]
                               /\ UNCHANGED <<waiters, running>>
                       /\ UNCHANGED <<active_connections, active_users, connection_info>>
    /\ UNCHANGED <<broken, ready>>
    /\ UNCHANGED WsFrame

\* the suspended send_text of session s finishes: it returns, or raises when the
\* session broke meanwhile; the coroutine goes on with the next position of the list
send_text_resume(s) ==
    /\ running = 0
    /\ waiters[s] # <<>>
    /\ LET e == Head(waiters[s])
       IN /\ waiters' = [waiters EXCEPT ![s] = Tail(@)]
          /\ ws_tasks' = [ws_tasks EXCEPT
                 ![e].pc = "loop",
                 ![e].idx = @ + 1,
                 ![e].disconnected_connections = IF s \in broken THEN Append(@, s) ELSE @]
          /\ running' = e
    /\ UNCHANGED <<active_connections, active_users, connection_info, broken, ready,
                   received>>
    /\ UNCHANGED WsFrame

\* the loop learns that the client of session s went away: from now on send_text raises
break_session(s) ==
    /\ running = 0
    /\ s \in connection_info
    /\ s \notin broken
    /\ broken' = broken \cup {s}
    /\ UNCHANGED <<active_connections, active_users, connection_info, ws_tasks, ready,
                   waiters,
                   running, received>>
    /\ UNCHANGED WsFrame

\* websocket_endpoint: receive_text raises WebSocketDisconnect, ws_manager.disconnect(websocket)
websocket_disconnect(s) ==
    /\ running = 0
    /\ s \in broken
    /\ s \in connection_info
    /\ LET after == disconnect(<<active_connections, connection_info, active_users>>, s)
       IN /\ active_connections' = after[1]
          /\ connection_info' = after[2]
          /\ active_users' = after[3]
    /\ UNCHANGED <<broken, ws_tasks, ready, waiters, running, received>>
    /\ UNCHANGED WsFrame

Publish == \E e \in EventIds : fire_ws_event(e)
SendStart == \E e \in EventIds : send_to_user_start(e)
SendStep == \E e \in EventIds, suspend \in BOOLEAN : send_to_user_step(e, suspend)
SendResume == \E s \in SessionSet : send_text_resume(s)
SessionBreaks == \E s \in SessionSet : break_session(s)
EndpointDisconnect == \E s \in SessionSet : websocket_disconnect(s)

NextWs == \/ Publish \/ SendStart \/ SendStep \/ SendResume \/ SessionBreaks
          \/ EndpointDisconnect
SpecWs == Init /\ [][NextWs]_vars

\* WebSocketManager.connect for a websocket the endpoint has just been given:
\* await websocket.accept() returns or raises, then the registration runs
\* without another suspension. A coroutine iterating the list the map dropped
\* keeps that list, which stays empty.
connect(s, ok) ==
    /\ running = 0
    /\ s \notin connection_info
    /\ s \notin broken
    /\ IF ok
       THEN /\ active_connections' = Append(active_connections, s)
            /\ active_users' = active_users \cup {WsUser}
            /\ connection_info' = connection_info \cup {s}
            /\ ws_tasks' =
                 [e \in EventIds |->
                    IF WsUser \notin active_users /\ ws_tasks[e].pc \in {"loop", "await"}
                    THEN [ws_tasks[e] EXCEPT !.detached = TRUE]
                    ELSE ws_tasks[e]]
            /\ broken' = broken
       ELSE /\ broken' = broken \cup {s}
            /\ UNCHANGED <<active_connections, active_users, connection_info, ws_tasks>>
    /\ UNCHANGED <<ready, waiters, running, received>>
    /\ UNCHANGED WsFrame

Connect(S) == \E s \in S, ok \in BOOLEAN : connect(s, ok)

\* two sessions connecting and going away while events are published
NextRegistry == \/ Connect({"s1", "s2"}) \/ Publish \/ SendStart \/ SendStep \/ SendResume
                \/ SessionBreaks \/ EndpointDisconnect
InitRegistry == InitStore /\ InitNoSessions

SpecRegistry == InitRegistry /\ [][NextRegistry]_vars

\* the sessions send_text was called on for event e
Attempted(e) ==
    {s \in SessionSet : \E i \in 1..Len(received[s]) : received[s][i] = e}
    \cup {ws_tasks[e].disconnected_connections[i] :
              i \in 1..Len(ws_tasks[e].disconnected_connections)}
Listed == {active_connections[i] : i \in 1..Len(active_connections)}
Got(s, e) == \E i \in 1..Len(received[s]) : received[s][i] = e

\* ------------------------------------- the capped lists of the rolling store
\* one scoring thread: transaction n has amount n and risk (n % 50) * 0.02
MaxRecorded == 1002

\* the transactions whose features were recorded so far
Round == IF drift = <<>> THEN 0 ELSE Head(drift)
RoundRisk(n) == (n % 50) * 20

\* record_live_features: nothing without a client, else one pipeline per call
record_live_features(value) ==
    /\ drift' = IF store_up THEN LiveRecorded(drift, value) ELSE drift
    /\ UNCHANGED <<core, thresholds, store_up, bufvars, featvars, createvars, trust,
                   graph, wsvars, scorevars>>

\* the buffer of transaction Round + 1 is updated and its features are not recorded yet
BufferAhead ==
    /\ risk_buffer["u1"].history # <<>>
    /\ Head(risk_buffer["u1"].history) = RoundRisk(Round + 1)

ListsRead ==
    /\ Round < MaxRecorded
    /\ ~BufferAhead
    /\ update_risk_buffer_read("w1", "u1", RoundRisk(Round + 1))

ListsWrite == update_risk_buffer_write("w1")

ListsRecord ==
    /\ bufreq["w1"].pc = "idle"
    /\ BufferAhead
    /\ record_live_features(Round + 1)

NextLists == ListsRead \/ ListsWrite \/ ListsRecord
SpecLists == Init /\ [][NextLists]_vars

\* ================================================================== claims
Terminal == {"success", "confirmed", "blocked", "cancelled", "auto-refunded"}

Status(t) == transactions[t].db_status

\* C1: once a transaction's db_status is terminal it never changes again.
C1_TerminalSticky ==
    [][\A t \in TxIds :
         Status(t) \in Terminal => transactions'[t].db_status = Status(t)]_vars

\* C2: per transaction the ledger holds at most one DEBIT, one CREDIT and one
\* REFUND, and never both a CREDIT and a REFUND.
C2_LedgerAtMostOnce ==
    \A t \in TxIds :
        /\ LedgerCount(t, "DEBIT") <= 1
        /\ LedgerCount(t, "CREDIT") <= 1
        /\ LedgerCount(t, "REFUND") <= 1
        /\ ~(LedgerCount(t, "CREDIT") > 0 /\ LedgerCount(t, "REFUND") > 0)

UserErrors ==
    {"404_not_found_or_not_pending", "404_not_found", "400_not_pending",
     "400_only_delayed"}

\* C3: a confirm, cancel or user-decision request read against a transaction
\* that is not pending, or not the caller's, is never accepted (a request is
\* accepted only for the caller's own pending transaction), and a step that
\* answers with an error changes no table, no event and no request state.
C3_RejectedChangesNothing ==
    [][/\ \A w \in Workers :
            (req[w].pc = "idle" /\ req'[w].pc # "idle") =>
                LET t == req'[w].row.tx_id
                IN /\ t \in TxIds
                   /\ Status(t) = "pending"
                   /\ transactions[t].user_id = req'[w].user_id
       /\ (resp' # resp /\ resp'.who \in Workers /\ resp'.code \in UserErrors) =>
            /\ UNCHANGED <<transactions, transaction_ledger, balance, fraud_alerts,
                           admin_logs, events>>
            /\ req' = req]_vars

\* a decision request on the caller's own non-pending transaction was refused
C3_Witness ==
    /\ resp.code = "400_not_pending"
    /\ \E t \in TxIds : Status(t) \in Terminal

\* C4: at insertion the stored action is BLOCK iff buffer override BLOCK or
\* risk >= block threshold; DELAY iff not BLOCK and (override ESCALATE or
\* risk >= delay threshold); ALLOW otherwise; db_status is blocked, pending,
\* success respectively.
C4_DecisionRule ==
    [][\A t \in 1..MaxTx :
         (t \notin TxIds /\ t \in 1..Len(transactions')) =>
            LET row == transactions'[t]
                e == row.explainability
                block == e.buffer_action = "BLOCK" \/ row.risk_score >= e.block
                delay == ~block /\ (e.buffer_action = "ESCALATE"
                                    \/ row.risk_score >= e.delay)
            IN /\ (row.action = "BLOCK") <=> block
               /\ (row.action = "DELAY") <=> delay
               /\ (row.action = "ALLOW") <=> (~block /\ ~delay)
               /\ row.action = "BLOCK" => row.db_status = "blocked"
               /\ row.action = "DELAY" => row.db_status = "pending"
               /\ row.action = "ALLOW" => row.db_status = "success"]_vars

\* a transaction delayed by the buffer override alone, and one blocked exactly
\* at the block threshold
C4_Witness ==
    /\ \E t \in TxIds :
          /\ transactions[t].action = "DELAY"
          /\ transactions[t].explainability.buffer_action = "ESCALATE"
          /\ transactions[t].risk_score < transactions[t].explainability.delay
    /\ \E t \in TxIds :
          /\ transactions[t].action = "BLOCK"
          /\ transactions[t].explainability.buffer_action = "NONE"
          /\ transactions[t].risk_score = transactions[t].explainability.block

\* C5: every transaction in a terminal state has matching ledger entries:
\* success/confirmed: exactly one DEBIT, for the sender, and a CREDIT iff the
\* receiver is known; cancelled: a REFUND iff amount_deducted_at is set;
\* blocked: no DEBIT and no REFUND.
C5_LedgerMatchesState ==
    \A t \in TxIds :
        LET row == transactions[t]
        IN /\ row.db_status \in {"success", "confirmed"} =>
                /\ LedgerCount(t, "DEBIT") = 1
                /\ CopiesIn(Entry(t, "DEBIT", row.user_id, row.amount),
                            transaction_ledger) = 1
                /\ (LedgerCount(t, "CREDIT") >= 1) <=> (row.receiver_user_id # NoUser)
           /\ row.db_status = "cancelled" =>
                ((LedgerCount(t, "REFUND") >= 1) <=> (row.amount_deducted_at # Null))
           /\ row.db_status = "blocked" =>
                (LedgerCount(t, "DEBIT") = 0 /\ LedgerCount(t, "REFUND") = 0)

\* C6: under the fair scheduler every pending transaction eventually stops
\* being pending, and none is pending later than one sweep interval after
\* created_at + the refund window.
C6_Deadline ==
    \A t \in TxIds :
        Status(t) = "pending" =>
            now <= transactions[t].created_at + RefundWindow + SweepInterval

Pending(t) == t \in TxIds /\ Status(t) = "pending"

C7_SweepOnce ==
    \A t \in TxIds :
        /\ LedgerCount(t, "REFUND") <= 1
        /\ EventCount("transaction_auto_refunded", t) <= 1

\* C8: admin unblock is accepted and applied only to a transaction in the
\* blocked state (db_status = blocked, action = BLOCK).
C8_UnblockOnlyBlocked ==
    [][\A a \in Admins :
         (admin[a].pc = "update" /\ admin'[a].pc = "log") =>
            /\ Status(admin[a].tx_id) = "blocked"
            /\ transactions[admin[a].tx_id].action = "BLOCK"]_vars

\* C9: a successful admin unblock sets action to ALLOW, adds no ledger entry,
\* changes no balance and leaves db_status blocked.
C9_UnblockFrame ==
    [][\A a \in Admins :
         (admin[a].pc = "update" /\ admin'[a].pc = "log") =>
            LET t == admin[a].tx_id
            IN /\ transactions'[t].action = "ALLOW"
               /\ transactions'[t].db_status = "blocked"
               /\ UNCHANGED <<transaction_ledger, balance>>]_vars

C20_ThresholdOrder ==
    thresholds.pc = "returned" =>
        /\ thresholds.out.delay_threshold < thresholds.out.block_threshold
        /\ thresholds.out.block_threshold >= MIN_BLOCK_THRESHOLD
        /\ thresholds.out.block_threshold <= MAX_BLOCK_THRESHOLD
        /\ thresholds.out.delay_threshold <= MAX_DELAY_THRESHOLD

\* a result where the clamped delay threshold had reached the block threshold
C20_Witness ==
    /\ thresholds.pc = "returned"
    /\ thresholds.in.base_delay > thresholds.in.base_block
    /\ thresholds.out.block_threshold = MIN_BLOCK_THRESHOLD
    /\ thresholds.out.delay_threshold = MIN_BLOCK_THRESHOLD - 50

RECURSIVE Replay(_)
\* the buffer after the updates of a history (newest first) applied one by one
Replay(h) == IF h = <<>> THEN 0 ELSE Decayed(Replay(Tail(h)), Head(h))

\* C13: when concurrent update_risk_buffer calls for one user have returned,
\* the stored value equals the result of applying the recorded updates in
\* some serial order; no update is lost.
C13_BufferSerial ==
    \A u \in Senders :
        (\A w \in Workers : bufreq[w].pc = "idle") /\ risk_buffer[u].history # <<>> =>
            LET h == risk_buffer[u].history
            IN \E p \in Permutations(1..Len(h)) :
                  risk_buffer[u].value = Replay([i \in 1..Len(h) |-> h[p[i]]])

\* C12: for two feature extractions of one sender, the first returned before
\* the second and its timestamp within the hour before the second's (equal
\* timestamps included), the second's tx_count_1h is at least the number of
\* extractions up to the first whose ticks lie in the second's window, plus
\* one for its own tick.
C12_VelocityCounts ==
    \A i, j \in 1..Len(extracted) :
        (/\ i < j
         /\ extracted[i].user_id = extracted[j].user_id
         /\ extracted[j].ts - Hour <= extracted[i].ts
         /\ extracted[i].ts <= extracted[j].ts) =>
            extracted[j].tx_count_1h >=
                Cardinality({k \in 1..i :
                    /\ extracted[k].user_id = extracted[j].user_id
                    /\ extracted[j].ts - Hour <= extracted[k].ts
                    /\ extracted[k].ts <= extracted[j].ts}) + 1

\* C14: every committed transaction id is the 6-digit date followed by a
\* 6-digit zero-padded sequence number of at least 1, no two committed rows
\* share an id, and within the day every newly committed row's sequence
\* number is greater than those of all rows committed before it, also when
\* the sequence reaches 999,999.
C14_TxIds ==
    \A j \in 1..Len(transactions) :
        /\ transactions[j].tx_id >= 1
        /\ SequenceComponentLen(transactions[j].tx_id) = SEQ_WIDTH
        /\ \A i \in 1..(j - 1) : transactions[i].tx_id < transactions[j].tx_id

\* C15: a create_transaction call whose INSERT finds its tx_id already
\* committed is not ended with an error by that attempt: it goes on with a
\* fresh id, and a conflict is reported only after three retries.
C15_CollisionRetried ==
    [][\A c \in Workers :
          (creq[c].pc = "scored" /\ IsCommitted(creq[c].tx_id) /\ creq'[c].pc = "idle")
              => resp'.code = "200_created"]_vars

\* C11: a recipient is in a sender's known-recipient set exactly when a
\* committed transaction of that sender to that recipient has reached ALLOW,
\* at creation or by a later confirmation; DELAY and BLOCK outcomes and
\* rolled-back requests add nothing.
C11_KnownRecipients ==
    \A u \in Senders, vpa \in Vpas :
        vpa \in recipients[u] <=>
            \E i \in 1..Len(transactions) :
                /\ transactions[i].user_id = u
                /\ transactions[i].recipient_vpa = vpa
                /\ transactions[i].action = "ALLOW"

\* C16: create_transaction is atomic in the database: when a step after the
\* INSERT fails (a rolling-store error that is not caught, a failing ledger,
\* alert or daily statement, a failing commit) the request persists neither
\* the row nor ledger entries, balance change, alert or daily aggregate.
C16_CreateAtomic ==
    [][\A c \in Workers :
          (creq[c].pc = "scored" /\ creq'[c].pc = "idle" /\ resp'.code # "200_created")
              => UNCHANGED <<transactions, transaction_ledger, balance, fraud_alerts,
                             daily>>]_vars

\* a request to a registered receiver failed at commit, after the known-recipient
\* write, and left the database as it was
C16_Witness ==
    /\ resp.who = "w1"
    /\ resp.code = "500_db_error"
    /\ "r2" \in recipients["u1"]
    /\ trust[<<"u1", "r2">>].tx_count = 1
    /\ transactions = <<>>
    /\ transaction_ledger = EmptyBag
    /\ balance["u2"] = 0
    /\ daily["u1"].transaction_count = 0

\* C17: a failing rolling-store write during create_transaction (known
\* recipient, trust record, graph edge, fraud edge) does not fail the request:
\* no request ends with the error of such a write.
C17_StoreWritesGuarded ==
    [][\A c \in Workers :
          (creq[c].pc = "scored" /\ ~store_up /\ creq'[c].pc = "idle")
              => resp'.code # "500_store_error"]_vars

C19_ScorerFallback ==
    [][\A c \in Workers :
          creq[c].pc = "generated" =>
              \/ creq'[c].pc = "generated"
              \/ creq'[c].pc = "scored"]_vars

\* C21: in every state a transaction's amount_credited_at is set exactly when a
\* CREDIT ledger entry exists for it, and amount_deducted_at, once set, is
\* never changed by a later operation.
C21_Timestamps ==
    /\ [](\A t \in TxIds :
            transactions[t].amount_credited_at # Null <=> LedgerCount(t, "CREDIT") > 0)
    /\ [][\A t \in TxIds :
            transactions[t].amount_deducted_at # Null =>
                transactions'[t].amount_deducted_at = transactions[t].amount_deducted_at]_vars

\* C22: after a successful confirm of a pending transaction through
\* /api/transaction/confirm or /api/user-decision the row has db_status
\* confirmed and action ALLOW and its fraud alert has user_decision confirm
\* with resolved_at set; after a successful cancel through either endpoint the
\* row has db_status cancelled and action BLOCK and its alert has
\* user_decision cancel.
C22_DecisionOutcome ==
    [][\A w \in Workers :
          (req[w].pc \in {"confirm", "cancel", "decision"} /\ req'[w].pc = "idle") =>
              LET t == req[w].row.tx_id
                  confirm == \/ req[w].pc = "confirm"
                             \/ req[w].pc = "decision" /\ req[w].decision = "confirm"
                  cancel == \/ req[w].pc = "cancel"
                            \/ req[w].pc = "decision" /\ req[w].decision = "cancel"
              IN /\ confirm =>
                      /\ transactions'[t].db_status = "confirmed"
                      /\ transactions'[t].action = "ALLOW"
                      /\ \A al \in fraud_alerts' :
                            al.tx_id = t =>
                                al.user_decision = "confirm" /\ al.resolved_at # Null
                 /\ cancel =>
                      /\ transactions'[t].db_status = "cancelled"
                      /\ transactions'[t].action = "BLOCK"
                      /\ \A al \in fraud_alerts' :
                            al.tx_id = t => al.user_decision = "cancel"]_vars

\* the step is the admin override of transaction t
AdminOverrides(t) ==
    \E a \in Admins : admin[a].pc = "update" /\ admin[a].tx_id = t /\ admin'[a].pc = "log"

\* C23: the explainability and risk_score stored for a transaction at decision
\* time are left unchanged by confirm, cancel, user-decision and the
\* auto-refund sweep; only an admin override may alter them.
C23_ExplainabilityFrame ==
    [][\A t \in TxIds :
          (\/ transactions'[t].explainability # transactions[t].explainability
           \/ transactions'[t].risk_score # transactions[t].risk_score)
              => AdminOverrides(t)]_vars

\* C24: when a publish meets a session whose send raises, that session is removed
\* from the subscriber map once the publish is over, the event has still been sent
\* to every other session of the user that stays subscribed, and no publish is
\* attempted on a session that was removed before the publish began.
C24_RaisingSend ==
    \A e \in EventIds :
        /\ (ws_tasks[e].pc = "done" /\ ws_tasks[e].disconnected_connections # <<>>)
              => /\ \A i \in 1..Len(ws_tasks[e].disconnected_connections) :
                        ws_tasks[e].disconnected_connections[i] \notin Listed
                 /\ \A s \in (Listed \cap ws_tasks[e].at_start) \ broken : Got(s, e)
        /\ ws_tasks[e].pc \notin {"new", "scheduled"} => Attempted(e) \subseteq ws_tasks[e].at_start

\* C25: a session that stays connected receives the events of its user in the order
\* they were published.
C25_PublishOrder ==
    \A s \in SessionSet \ broken :
        \A i, j \in 1..Len(received[s]) : i < j => received[s][i] < received[s][j]

\* C26: the risk-buffer history holds at most 20 entries and each drift:live list
\* at most 1000 values, both newest first: they are exactly the latest pushes, the
\* oldest ones being discarded.
C26_CappedLists ==
    LET h == risk_buffer["u1"].history
        n == IF BufferAhead THEN Round + 1 ELSE Round
    IN /\ Len(h) = (IF n < HISTORY_LAST + 1 THEN n ELSE HISTORY_LAST + 1)
       /\ \A i \in 1..Len(h) : h[i] = RoundRisk(n - i + 1)
       /\ Len(drift) = (IF Round < WINDOW_SIZE THEN Round ELSE WINDOW_SIZE)
       /\ \A i \in 1..Len(drift) : drift[i] = Round - i + 1

\* both lists are full and have discarded their oldest entries
C26_Witness ==
    /\ Round > WINDOW_SIZE
    /\ Len(drift) = WINDOW_SIZE
    /\ Len(risk_buffer["u1"].history) = HISTORY_LAST + 1
    /\ drift[WINDOW_SIZE] = Round - WINDOW_SIZE + 1

\* C27: the rows a sweep transitions are, when it transitions them, older than
\* the refund window, DELAY and pending; each ends auto-refunded with action
\* BLOCK and gets a REFUND entry exactly when its amount_deducted_at is set.
C27_SweepGuard ==
    [][\A s \in Sweepers :
         (sweep[s].pc = "selected" /\ sweep'[s].pc = "idle") =>
            \A row \in sweep[s].rows :
                LET t == row.tx_id
                IN /\ transactions[t].created_at < now - RefundWindow
                   /\ transactions[t].action = "DELAY"
                   /\ transactions[t].db_status = "pending"
                   /\ transactions'[t].db_status = "auto-refunded"
                   /\ transactions'[t].action = "BLOCK"
                   /\ LedgerCount(t, "REFUND")' - LedgerCount(t, "REFUND") =
                         (IF transactions[t].amount_deducted_at # Null THEN 1 ELSE 0)]_vars

C29_DailyTotals ==
    \A u \in Users :
        /\ daily[u].transaction_count =
              Cardinality({t \in TxIds : transactions[t].user_id = u})
        /\ daily[u].total_amount = AmountOf(u, Len(transactions))

\* C30: when admin_action has changed a transaction's action and returns, an
\* admin_logs row for that tx_id with the admin's username and the source
\* address exists, also when writing the log row failed.
C30_OverrideLogged ==
    [][\A a \in Admins :
         (admin[a].pc = "log" /\ admin'[a].pc = "idle") =>
            \E i \in 1..Len(admin_logs') :
                /\ admin_logs'[i].tx_id = admin[a].tx_id
                /\ admin_logs'[i].admin_username = a
                /\ admin_logs'[i].source_ip = "client_host"]_vars

\* the amounts of the CREDIT and REFUND entries of user u
RECURSIVE CreditedSum(_, _)
CreditedSum(entries, u) ==
    IF entries = {} THEN 0
    ELSE LET e == CHOOSE x \in entries : TRUE
         IN (IF e.user_id = u /\ e.operation \in {"CREDIT", "REFUND"}
             THEN e.amount * CopiesIn(e, transaction_ledger) ELSE 0)
            + CreditedSum(entries \ {e}, u)

\* C31: a DEBIT entry comes with no balance change and every CREDIT or REFUND
\* entry with an increase of that user's balance by its amount: each balance is
\* the initial balance plus the user's CREDIT and REFUND amounts.
C31_BalanceLedger ==
    \A u \in Users : balance[u] = CreditedSum(BagToSet(transaction_ledger), u)

\* a sender with a DEBIT entry and an unchanged balance, the receiver credited
C31_Witness ==
    \E e \in BagToSet(transaction_ledger) :
        /\ e.operation = "DEBIT"
        /\ balance[e.user_id] = 0
        /\ \E v \in Users : balance[v] > 0

\* C32: in every result of score_with_ensemble and score_transaction the
\* confidence_level is HIGH iff disagreement < 0.2, MEDIUM iff it lies in
\* [0.2, 0.4] and LOW iff it exceeds 0.4.
C32_ConfidenceBands ==
    ensemble.pc = "returned" =>
        LET d == ensemble.out.disagreement
            level == ensemble.out.confidence_level
        IN /\ (level = "HIGH") <=> (d < 200)
           /\ (level = "MEDIUM") <=> (d >= 200 /\ d <= 400)
           /\ (level = "LOW") <=> (d > 400)


\* C33: the trust score of a pair never decreases when the pair's tx_count or
\* total_amount grows (the step of tx_count from 0 to 1 included), and it
\* strictly decreases each time the pair's fraud_flags grows
C33_TrustMonotone ==
    [][\A k \in Senders \X Vpas :
          /\ (/\ trust'[k].fraud_flags = trust[k].fraud_flags
              /\ trust'[k].tx_count >= trust[k].tx_count
              /\ trust'[k].total_amount >= trust[k].total_amount)
                => TrustFromKeys(k[1], k[2])' >= TrustFromKeys(k[1], k[2])
          /\ trust'[k].fraud_flags > trust[k].fraud_flags
                => TrustFromKeys(k[1], k[2])' < TrustFromKeys(k[1], k[2])]_vars


\* the committed transactions of u to vpa that were BLOCKed
BlockedRows(u, vpa) ==
    {i \in 1..Len(transactions) :
        /\ transactions[i].user_id = u
        /\ transactions[i].recipient_vpa = vpa
        /\ transactions[i].action = "BLOCK"}

\* C34: the user's fraud count, the recipient's fraud senders and the pair's
\* fraud flags are incremented once per committed transaction BLOCKed at
\* creation, and never for a transaction that was rolled back: no counter is
\* ahead of the committed BLOCKed rows
C34_FraudSignals ==
    /\ \A u \in Senders :
          graph.user_fraud_count[u]
            <= Cardinality(UNION {BlockedRows(u, vpa) \X {vpa} : vpa \in Vpas})
    /\ \A e \in graph.recipient_fraud_senders : BlockedRows(e[2], e[1]) # {}
    /\ \A k \in Senders \X Vpas :
          trust[k].fraud_flags <= Cardinality(BlockedRows(k[1], k[2]))


C36_ActionMatchesStatus ==
    \A t \in TxIds :
       LET row == transactions[t]
       IN /\ row.action \in {"ALLOW", "DELAY", "BLOCK"}
          /\ row.db_status = "pending" => row.action = "DELAY"
          /\ row.db_status \in {"success", "confirmed"} => row.action = "ALLOW"
          /\ row.db_status \in {"cancelled", "auto-refunded"} => row.action = "BLOCK"
          /\ row.db_status = "blocked"
               => row.action \in {"BLOCK", "ALLOW"}


\* C37: every lifecycle event published refers to a committed state change:
\* the transaction of a transaction_created event is stored, and the
\* transaction of a transaction_auto_refunded event is stored as auto-refunded
C37_EventsCommitted ==
    \A e \in BagToSet(events) :
       /\ e.tx_id \in TxIds
       /\ e.type = "transaction_auto_refunded"
            => transactions[e.tx_id].db_status = "auto-refunded"


\* C38: a finished publish has been sent to every session that was subscribed
\* from its start to its end and whose sends do not raise, whatever
\* disconnected or was dropped while the publish was suspended
C38_NoSessionSkipped ==
    \A e \in EventIds :
       ws_tasks[e].pc = "done"
         => \A s \in ws_tasks[e].at_start :
               (s \in Listed /\ s \notin broken) => Got(s, e)


\* C39: a transaction posted to the ingestion endpoint with a tx_id that is
\* already stored leaves the stored row as it is: its risk_score, action,
\* db_status, explainability and created_at are unchanged
C39_RepostKeepsRow ==
    [][Len(extracted') > Len(extracted)
         => \A t \in TxIds :
               /\ transactions'[t].risk_score = transactions[t].risk_score
               /\ transactions'[t].action = transactions[t].action
               /\ transactions'[t].db_status = transactions[t].db_status
               /\ transactions'[t].explainability = transactions[t].explainability
               /\ transactions'[t].created_at = transactions[t].created_at]_vars


\* how often session s stands in the user's list
Occurrences(s) == Cardinality({i \in 1..Len(active_connections) : active_connections[i] = s})

\* WebSocketManager.get_connection_count
get_connection_count == IF WsUser \in active_users THEN Len(active_connections) ELSE 0

\* C40: a websocket is a key of connection_info exactly when it stands once
\* in the list of its user, no user of active_connections has an empty list,
\* and get_connection_count is the number of registered sessions
C40_RegistryConsistent ==
    /\ \A s \in SessionSet :
          /\ s \in connection_info <=> Occurrences(s) = 1
          /\ Occurrences(s) <= 1
    /\ WsUser \in active_users <=> active_connections # <<>>
    /\ get_connection_count = Cardinality(connection_info)

\* a publish has dropped a session whose send raised, while another session
\* that connected is still registered
C40_Witness ==
    /\ \E e \in EventIds :
          /\ ws_tasks[e].pc = "done"
          /\ ws_tasks[e].disconnected_connections # <<>>
    /\ connection_info # {}
    /\ broken \ connection_info # {}

====
